---- MODULE Spec2Model ----
(***************************************************************************)
(* Verification model of the OVSDB client library (holodekk/ovsdb).        *)
(*                                                                         *)
(* Part 1: the asynchronous client runtime of ovsdb/src/client.rs: the     *)
(* background task client_main, the callers of Client::execute, the        *)
(* caller of Client::stop, and the OVSDB server at the other end of the    *)
(* transport (Spec, FairSpec).                                             *)
(* Part 2: the stream codec of protocol/codec.rs (CodecSpec; ChunkSpec     *)
(* for one message delivered in chunks).                                   *)
(* Part 3: the request envelope and its JSON form (EnvelopeSpec).          *)
(* Part 4: the value algebra Uuid, Set, UuidSet, Map, Optional             *)
(* (ValueSpec).                                                            *)
(* Part 5: the schema parser of ovsdb/src/schema and the field            *)
(* classification of ovsdb-build (SchemaSpec).                             *)
(* The parts share one set of variables; each specification moves the      *)
(* variables of its part and leaves the others at their initial values.    *)
(***************************************************************************)
EXTENDS Integers, Sequences, FiniteSets, TLC

(***************************************************************************)
(* Bounds of the model.                                                    *)
(***************************************************************************)
\* number of calls of Client::execute made during the life of the client;
\* call c is the c-th call whose request the request channel accepts
NumCallers == 2
\* number of frames the server side of the transport produces
MaxFrames == 2

(***************************************************************************)
(* Values.                                                                 *)
(***************************************************************************)
Callers == 1 .. NumCallers

\* Option::None in the `id` field of a request or a response
NoId == 0
\* Request::new draws a fresh version-4 UUID: the request of call c gets id c
FreshId(c) == c
\* the id of the request of call c; every request the client methods submit
\* is built by Request::new
reqId == [c \in Callers |-> FreshId(c)]
\* an id the client never generated
BogusId == NumCallers + 1
Ids == {FreshId(c) : c \in Callers} \cup {BogusId}

\* capacity of the request channel and of the command channel
ChannelCapacity == 32

\* `result` of a response: the k-th frame of the server carries the value k,
\* so that no two responses are the same
Results == 1 .. MaxFrames

\* what reader.next() yields: a decoded message or a codec error
ResponseFrame(i, r) == [kind |-> "Response", id |-> i, result |-> r]
OtherFrame(k) == [kind |-> k, id |-> NoId, result |-> NoId]
ErrorKinds == {"Decode", "DataStreamCorrupted", "Io"}
Frames == {ResponseFrame(i, r) : i \in Ids \cup {NoId}, r \in Results}
          \cup {OtherFrame(k) : k \in ErrorKinds \cup {"Request"}}

\* the oneshot channel of a call holds nothing yet
NoReply == OtherFrame("None")

Range(s) == {s[k] : k \in DOMAIN s}

VARIABLES
    pc,            \* pc[c]: position of call c of Client::execute
    reply,         \* reply[c]: what was sent into the oneshot channel of call c
    requests,      \* the request channel: calls whose ClientRequest is queued
    commands,      \* the command channel
    sendersAlive,  \* the Client still holds request_sender and command_sender
    channels,      \* client_main: id -> call whose oneshot sender is stored
    writerClosed,  \* client_main: writer.close() has completed
    task,          \* state / result of the spawned task
    stop,          \* position of Client::stop
    stopResult,    \* what Client::stop returned
    inbound,       \* frames the read direction of the transport will yield
    readEof,       \* the read direction has reached end of stream
    framesSent,    \* number of frames produced by the server so far
    writeBroken,   \* the write direction of the transport fails from now on
    wire,          \* history: calls whose request was written, in order
    accepted,      \* history: calls in the order the request channel took them
    received,      \* history: ids of the responses client_main has handled
    \* Part 2: Framed<_, Codec>, the read half
    stream,        \* history: the items the peer puts on the stream
    pending,       \* bytes of the stream the socket has not delivered yet
    src,           \* the read buffer (BytesMut) handed to Codec::decode
    data,          \* Codec::data
    tags,          \* Codec::tags
    readable,      \* FramedRead: decode is to be called
    decoded,       \* history: what Codec::decode returned, in order
    \* Part 3: the request envelope
    request,       \* the Request built by the client
    json,          \* the JSON value on the wire
    message,       \* what the Message deserializer made of it
    \* Part 4: the value algebra
    value,         \* a value of a container type
    encoded,       \* its serialization
    readBack,      \* what deserializing the serialization yields
    \* Part 5: the schema and the generator
    document,      \* the JSON of a schema file
    schema,        \* what parsing it as Schema yields
    field          \* the generator's field for the column of the schema

clientVars == <<pc, reply, requests, commands, sendersAlive, channels,
                writerClosed, task, stop, stopResult, inbound, readEof,
                framesSent, writeBroken, wire, accepted, received>>
codecVars == <<stream, pending, src, data, tags, readable, decoded>>
envelopeVars == <<request, json, message>>
valueVars == <<value, encoded, readBack>>
schemaVars == <<document, schema, field>>
\* everything outside the client runtime
wireVars == <<codecVars, envelopeVars, valueVars, schemaVars>>
vars == <<clientVars, wireVars>>

callerVars == <<pc, reply>>
stopVars == <<stop, stopResult, sendersAlive>>
serverVars == <<inbound, readEof, framesSent, writeBroken>>
histVars == <<wire, accepted, received>>

EmptyMap == [i \in {} |-> 0]

ClientInit ==
    /\ pc = [c \in Callers |-> "idle"]
    /\ reply = [c \in Callers |-> NoReply]
    /\ requests = <<>>
    /\ commands = <<>>
    /\ sendersAlive = TRUE
    /\ channels = EmptyMap
    /\ writerClosed = FALSE
    /\ task = "running"
    /\ stop = "live"
    /\ stopResult = "none"
    /\ inbound = <<>>
    /\ readEof = FALSE
    /\ framesSent = 0
    /\ writeBroken = FALSE
    /\ wire = <<>>
    /\ accepted = <<>>
    /\ received = {}

\* Codec::new() (Default): empty buffer, empty tag stack; nothing read yet
CodecIdle ==
    /\ stream = <<>>
    /\ pending = <<>>
    /\ src = <<>>
    /\ data = <<>>
    /\ tags = <<>>
    /\ readable = FALSE
    /\ decoded = <<>>

\* nothing built, nothing on the wire, nothing decoded
NoRequest == [method |-> "none"]
NoJson == [t |-> "none"]
NoMessage == [kind |-> "none"]
EnvelopeIdle ==
    /\ request = NoRequest
    /\ json = NoJson
    /\ message = NoMessage

NoValue == [type |-> "none"]
ValueIdle ==
    /\ value = NoValue
    /\ encoded = NoJson
    /\ readBack = NoValue

\* no schema document read, nothing parsed, nothing generated
NoSchema == [name |-> "none"]
NoField == [kind |-> "none"]
SchemaIdle ==
    /\ document = NoJson
    /\ schema = NoSchema
    /\ field = NoField

Init == ClientInit /\ CodecIdle /\ EnvelopeIdle /\ ValueIdle /\ SchemaIdle

(***************************************************************************)
(* Helpers of the runtime task.                                            *)
(***************************************************************************)
\* HashMap::insert: a later insert of the same key replaces the entry
Insert(ch, id, c) == [i \in DOMAIN ch \cup {id} |-> IF i = id THEN c ELSE ch[i]]
\* HashMap::remove
Remove(ch, id) == [i \in DOMAIN ch \ {id} |-> ch[i]]

\* variant: the newest queued item is taken first
NextRequest_Newest(q) == q[Len(q)]
\* mpsc::Receiver::recv yields the oldest queued item
NextRequest(q) == Head(q)
RestRequests(q) == Tail(q)

\* writer.send(..).await succeeds: the socket accepts the bytes; a socket
\* whose write direction was shut down refuses them
TransportWriteOk == ~writeBroken /\ ~writerClosed
\* writer.close().await succeeds
TransportCloseOk == ~writeBroken

\* the oneshot sender of call c is still owned by somebody: it sits in a
\* queued ClientRequest or in the table of client_main
SinkHeld(c) == c \in Range(requests) \/ c \in Range(channels)

\* variant: the table of senders outlives the task
TaskEnds_KeepTable(result) ==
    /\ task' = result
    /\ channels' = channels
    /\ requests' = <<>>
    /\ commands' = <<>>
    /\ inbound' = <<>>

\* client_main returns or unwinds: its locals (both receivers with what is
\* queued in them, the table of senders, the framed transport with what it
\* has not yet yielded) are dropped
TaskEnds(result) ==
    /\ task' = result
    /\ channels' = EmptyMap
    /\ requests' = <<>>
    /\ commands' = <<>>
    /\ inbound' = <<>>

\* JoinHandle::await followed by `?`: a panic of the task is a JoinError
JoinResult(t) ==
    CASE t = "Ok" -> "Ok"
      [] t = "CommunicationFailure" -> "CommunicationFailure"
      [] OTHER -> "ShutdownError"

(***************************************************************************)
(* Client::execute, one call per element of Callers.                       *)
(***************************************************************************)
\* the request is handed to the request channel
Execute(c) ==
    /\ pc[c] = "idle"
    /\ \A d \in 1 .. (c - 1) : pc[d] # "idle"
    /\ stop = "live"
    /\ Len(requests) < ChannelCapacity
    /\ IF task = "running"
         THEN /\ requests' = Append(requests, c)
              /\ accepted' = Append(accepted, c)
              /\ pc' = [pc EXCEPT ![c] = "waiting"]
         ELSE \* the receiver is gone: SendError
              /\ pc' = [pc EXCEPT ![c] = "failed"]
              /\ UNCHANGED <<requests, accepted>>
    /\ UNCHANGED <<reply, commands, channels, writerClosed, task, wire, received>>
    /\ UNCHANGED <<stopVars, serverVars>>
    /\ UNCHANGED wireVars

\* rx.await yields the response
ExecuteRecv(c) ==
    /\ pc[c] = "waiting"
    /\ reply[c] # NoReply
    /\ pc' = [pc EXCEPT ![c] = "done"]
    /\ UNCHANGED <<reply, requests, commands, channels, writerClosed, task>>
    /\ UNCHANGED <<stopVars, serverVars, histVars>>
    /\ UNCHANGED wireVars

\* rx.await yields RecvError: the sender was dropped without sending
ExecuteRecvErr(c) ==
    /\ pc[c] = "waiting"
    /\ reply[c] = NoReply
    /\ ~SinkHeld(c)
    /\ pc' = [pc EXCEPT ![c] = "failed"]
    /\ UNCHANGED <<reply, requests, commands, channels, writerClosed, task>>
    /\ UNCHANGED <<stopVars, serverVars, histVars>>
    /\ UNCHANGED wireVars

\* the caller drops the future of execute while it awaits the reply
Cancel(c) ==
    /\ pc[c] = "waiting"
    /\ pc' = [pc EXCEPT ![c] = "canceled"]
    /\ UNCHANGED <<reply, requests, commands, channels, writerClosed, task>>
    /\ UNCHANGED <<stopVars, serverVars, histVars>>
    /\ UNCHANGED wireVars

(***************************************************************************)
(* Client::stop and the drop of a Client.  stop takes the Client by value, *)
(* so no call of execute (which borrows it) is in progress.                *)
(***************************************************************************)
NoCallInProgress == \A c \in Callers : pc[c] # "waiting"

Stop ==
    /\ stop = "live"
    /\ NoCallInProgress
    /\ Len(commands) < ChannelCapacity
    /\ sendersAlive' = FALSE
    /\ IF task = "running"
         THEN /\ commands' = Append(commands, "Shutdown")
              /\ stop' = "joining"
              /\ UNCHANGED stopResult
         ELSE \* the command receiver is gone: SendError, returned by `?`
              /\ stop' = "returned"
              /\ stopResult' = "Internal"
              /\ UNCHANGED commands
    /\ UNCHANGED <<callerVars, requests, channels, writerClosed, task>>
    /\ UNCHANGED <<serverVars, histVars>>
    /\ UNCHANGED wireVars

StopJoin ==
    /\ stop = "joining"
    /\ task # "running"
    /\ stop' = "returned"
    /\ stopResult' = JoinResult(task)
    /\ UNCHANGED <<callerVars, requests, commands, sendersAlive, channels,
                   writerClosed, task>>
    /\ UNCHANGED <<serverVars, histVars>>
    /\ UNCHANGED wireVars

DropClient ==
    /\ stop = "live"
    /\ NoCallInProgress
    /\ stop' = "dropped"
    /\ sendersAlive' = FALSE
    /\ UNCHANGED <<callerVars, requests, commands, channels, writerClosed,
                   task, stopResult>>
    /\ UNCHANGED <<serverVars, histVars>>
    /\ UNCHANGED wireVars

(***************************************************************************)
(* client_main: one action per branch of the select! loop.  A handler runs *)
(* to its end before the loop selects again.                               *)
(***************************************************************************)
\* Some(req) = requests.recv()
RecvRequest ==
    /\ task = "running"
    /\ requests # <<>>
    /\ LET c == NextRequest(requests)
           id == reqId[c]
       IN IF TransportWriteOk
            THEN /\ channels' = IF id # NoId THEN Insert(channels, id, c)
                                             ELSE channels
                 /\ requests' = RestRequests(requests)
                 /\ wire' = Append(wire, c)
                 /\ UNCHANGED <<task, commands, inbound>>
            ELSE \* writer.send(..).await? returns the error
                 /\ TaskEnds("CommunicationFailure")
                 /\ UNCHANGED wire
    /\ UNCHANGED <<callerVars, writerClosed, accepted, received>>
    /\ UNCHANGED <<stopVars, readEof, framesSent, writeBroken>>
    /\ UNCHANGED wireVars

\* Some(cmd) = commands.recv(), cmd = Shutdown
RecvCommand ==
    /\ task = "running"
    /\ commands # <<>>
    /\ IF TransportCloseOk
         THEN /\ writerClosed' = TRUE
              /\ commands' = Tail(commands)
              /\ UNCHANGED <<task, channels, requests, inbound>>
         ELSE \* writer.close().await? returns the error
              /\ TaskEnds("CommunicationFailure")
              /\ UNCHANGED writerClosed
    /\ UNCHANGED <<callerVars, stopVars, histVars>>
    /\ UNCHANGED <<readEof, framesSent, writeBroken>>
    /\ UNCHANGED wireVars

\* variant: the response goes to some stored sender, whatever its key
HandleResponse_AnySink(res) ==
    /\ IF res.id # NoId /\ res.id \in DOMAIN channels
         THEN \E k \in DOMAIN channels :
                 /\ channels' = Remove(channels, k)
                 /\ reply' = IF pc[channels[k]] = "waiting"
                               THEN [reply EXCEPT ![channels[k]] = res]
                               ELSE reply
         ELSE UNCHANGED <<channels, reply>>
    /\ inbound' = Tail(inbound)
    /\ UNCHANGED <<task, requests, commands>>

\* variant: a response whose id has no entry ends the task
HandleResponse_UnknownFatal(res) ==
    IF res.id # NoId /\ res.id \in DOMAIN channels
      THEN LET c == channels[res.id]
           IN /\ channels' = Remove(channels, res.id)
              /\ reply' = IF pc[c] = "waiting"
                            THEN [reply EXCEPT ![c] = res]
                            ELSE reply
              /\ inbound' = Tail(inbound)
              /\ UNCHANGED <<task, requests, commands>>
      ELSE TaskEnds("panicked") /\ UNCHANGED reply

\* variant: a failed send into the oneshot channel ends the task
HandleResponse_SendErrorFatal(res) ==
    IF res.id # NoId /\ res.id \in DOMAIN channels
      THEN LET c == channels[res.id]
           IN IF pc[c] = "waiting"
                THEN /\ channels' = Remove(channels, res.id)
                     /\ reply' = [reply EXCEPT ![c] = res]
                     /\ inbound' = Tail(inbound)
                     /\ UNCHANGED <<task, requests, commands>>
                ELSE TaskEnds("panicked") /\ UNCHANGED reply
      ELSE /\ inbound' = Tail(inbound)
           /\ UNCHANGED <<channels, reply, task, requests, commands>>

\* variant: the sender is taken out of the table and dropped, the response
\* is not forwarded
HandleResponse_NoForward(res) ==
    /\ IF res.id # NoId /\ res.id \in DOMAIN channels
         THEN /\ channels' = Remove(channels, res.id)
              /\ reply' = reply
         ELSE UNCHANGED <<channels, reply>>
    /\ inbound' = Tail(inbound)
    /\ UNCHANGED <<task, requests, commands>>

\* variant: the sender stays in the table after the response was forwarded
HandleResponse_NoRemove(res) ==
    /\ IF res.id # NoId /\ res.id \in DOMAIN channels
         THEN LET c == channels[res.id]
              IN /\ channels' = channels
                 /\ reply' = IF pc[c] = "waiting"
                               THEN [reply EXCEPT ![c] = res]
                               ELSE reply
         ELSE UNCHANGED <<channels, reply>>
    /\ inbound' = Tail(inbound)
    /\ UNCHANGED <<task, requests, commands>>

\* Ok(Message::Response(res)): the sender stored under the id of the
\* response is taken out of the table and the response is sent into it; the
\* outcome of that send is ignored
HandleResponse(res) ==
    /\ IF res.id # NoId /\ res.id \in DOMAIN channels
         THEN LET c == channels[res.id]
              IN /\ channels' = Remove(channels, res.id)
                 /\ reply' = IF pc[c] = "waiting"
                               THEN [reply EXCEPT ![c] = res]
                               ELSE reply
         ELSE UNCHANGED <<channels, reply>>
    /\ inbound' = Tail(inbound)
    /\ UNCHANGED <<task, requests, commands>>

\* Ok(Message::Request(_)) => todo!()
HandleServerRequest ==
    /\ TaskEnds("panicked")
    /\ UNCHANGED reply

\* Err(_e) => todo!()
HandleReadError(kind) ==
    /\ TaskEnds("panicked")
    /\ UNCHANGED reply

\* Some(msg) = reader.next()
RecvMessage ==
    /\ task = "running"
    /\ inbound # <<>>
    /\ LET msg == Head(inbound)
       IN /\ received' = IF msg.kind = "Response" /\ msg.id # NoId
                           THEN received \cup {msg.id}
                           ELSE received
          /\ CASE msg.kind = "Response" -> HandleResponse(msg)
               [] msg.kind = "Request" -> HandleServerRequest
               [] OTHER -> HandleReadError(msg.kind)
    /\ UNCHANGED <<pc, writerClosed, wire, accepted>>
    /\ UNCHANGED <<stopVars, readEof, framesSent, writeBroken>>
    /\ UNCHANGED wireVars

\* variant: the loop ends as soon as both channels are closed and drained
ElseBreak_IgnoreReader ==
    /\ task = "running"
    /\ requests = <<>> /\ ~sendersAlive
    /\ commands = <<>>
    /\ TaskEnds("Ok")
    /\ UNCHANGED <<callerVars, writerClosed, stopVars, histVars>>
    /\ UNCHANGED <<readEof, framesSent, writeBroken>>
    /\ UNCHANGED wireVars

\* else => break: every branch of the select! is disabled, that is both
\* channels are closed and drained and the reader is at end of stream
ElseBreak ==
    /\ task = "running"
    /\ requests = <<>> /\ ~sendersAlive
    /\ commands = <<>>
    /\ inbound = <<>> /\ readEof
    /\ TaskEnds("Ok")
    /\ UNCHANGED <<callerVars, writerClosed, stopVars, histVars>>
    /\ UNCHANGED <<readEof, framesSent, writeBroken>>
    /\ UNCHANGED wireVars

(***************************************************************************)
(* The other end of the transport.  The transport is owned by the task and *)
(* is gone when the task has ended.                                        *)
(***************************************************************************)
\* ids the server can answer: it has read them from the transport
WrittenIds == {reqId[c] : c \in Range(wire)} \ {NoId}

ServerFrames ==
    {ResponseFrame(i, framesSent + 1) : i \in WrittenIds \cup {BogusId, NoId}}
    \cup {OtherFrame(k) : k \in ErrorKinds \cup {"Request"}}

\* a frame (or a failure of the read direction) becomes available; what
\* follows a frame that ends the task is never read and is left out
ServerSend(f) ==
    /\ task = "running"
    /\ framesSent < MaxFrames
    /\ ~readEof
    /\ \A k \in DOMAIN inbound : inbound[k].kind = "Response"
    /\ inbound' = Append(inbound, f)
    /\ framesSent' = framesSent + 1
    /\ UNCHANGED <<callerVars, requests, commands, channels, writerClosed, task>>
    /\ UNCHANGED <<stopVars, readEof, writeBroken, histVars>>
    /\ UNCHANGED wireVars

\* the server closes its write direction
ServerClose ==
    /\ task = "running"
    /\ ~readEof
    /\ readEof' = TRUE
    /\ UNCHANGED <<callerVars, requests, commands, channels, writerClosed, task>>
    /\ UNCHANGED <<stopVars, inbound, framesSent, writeBroken, histVars>>
    /\ UNCHANGED wireVars

\* the connection breaks: writes and close fail from now on
TransportBreak ==
    /\ task = "running"
    /\ ~writeBroken
    /\ writeBroken' = TRUE
    /\ UNCHANGED <<callerVars, requests, commands, channels, writerClosed, task>>
    /\ UNCHANGED <<stopVars, inbound, readEof, framesSent, histVars>>
    /\ UNCHANGED wireVars

(***************************************************************************)
(* Specifications.                                                         *)
(***************************************************************************)
Next ==
    \/ \E c \in Callers : Execute(c)
    \/ \E c \in Callers : ExecuteRecv(c)
    \/ \E c \in Callers : ExecuteRecvErr(c)
    \/ \E c \in Callers : Cancel(c)
    \/ Stop
    \/ StopJoin
    \/ DropClient
    \/ RecvRequest
    \/ RecvCommand
    \/ RecvMessage
    \/ ElseBreak
    \/ \E f \in ServerFrames : ServerSend(f)
    \/ ServerClose
    \/ TransportBreak

Spec == Init /\ [][Next]_vars

\* The runtime task is polled until it completes and each ready select!
\* branch is eventually taken; a caller that keeps awaiting is woken when
\* its oneshot channel is filled or closed; the join of stop is woken when
\* the task ends.  Callers, the server and the transport are not obliged to
\* do anything.
FairSpec ==
    /\ Spec
    /\ WF_vars(RecvRequest)
    /\ WF_vars(RecvCommand)
    /\ WF_vars(RecvMessage)
    /\ WF_vars(ElseBreak)
    /\ WF_vars(StopJoin)
    /\ \A c \in Callers : WF_vars(ExecuteRecv(c))
    /\ \A c \in Callers : WF_vars(ExecuteRecvErr(c))

TypeOK ==
    /\ pc \in [Callers -> {"idle", "waiting", "done", "failed", "canceled"}]
    /\ task \in {"running", "Ok", "CommunicationFailure", "panicked"}
    /\ stop \in {"live", "joining", "returned", "dropped"}
    /\ stopResult \in {"none", "Ok", "Internal", "CommunicationFailure", "ShutdownError"}
    /\ DOMAIN channels \subseteq Ids
    /\ Range(channels) \subseteq Callers
    /\ Range(requests) \subseteq Callers
    /\ Range(inbound) \subseteq Frames
    /\ framesSent \in 0 .. MaxFrames

(***************************************************************************)
(* Properties of the client runtime.                                       *)
(***************************************************************************)
\* the select! loop handles a response and goes on
ResponseHandled(res) ==
    /\ task = "running" /\ task' = "running"
    /\ inbound # <<>> /\ Head(inbound) = res /\ res.kind = "Response"
    /\ inbound' = Tail(inbound)

\* the task may end in this state for a reason other than the inbound frame
WriteFailurePossible ==
    \/ requests # <<>> /\ ~TransportWriteOk
    \/ commands # <<>> /\ ~TransportCloseOk

\* C1: a response whose id is in the outstanding-requests table is forwarded
\* to the reply sink registered for exactly that id and the entry is
\* removed; a caller of execute only ever receives a response whose id is the
\* id of its own request.
C1_Correlation ==
    [][ /\ \A c \in Callers :
              reply'[c] # NoReply =>
                 /\ reply'[c].kind = "Response"
                 /\ reqId[c] # NoId
                 /\ reply'[c].id = reqId[c]
        /\ \A res \in Frames :
              (ResponseHandled(res) /\ res.id \in DOMAIN channels) =>
                 /\ res.id \notin DOMAIN channels'
                 /\ \A i \in DOMAIN channels \ {res.id} :
                       i \in DOMAIN channels' /\ channels'[i] = channels[i]
                 /\ pc[channels[res.id]] = "waiting" =>
                       reply'[channels[res.id]] = res
                 /\ \A c \in Callers \ {channels[res.id]} : reply'[c] = reply[c]
      ]_vars

\* two calls were outstanding together and each got the response to its own
\* request, the later request being answered first
C1_Witness ==
    \E c, d \in Callers :
       /\ c < d
       /\ pc[c] = "done" /\ pc[d] = "done"
       /\ reply[c].id = reqId[c] /\ reply[d].id = reqId[d]
       /\ reply[d].result < reply[c].result

\* C2 as claimed: the table holds exactly the ids of the requests that were
\* sent and have neither been replied to nor canceled by their caller.
C2_Original ==
    task = "running" =>
       DOMAIN channels =
          ({reqId[c] : c \in {d \in Range(wire) : pc[d] # "canceled"}} \ {NoId})
             \ received

\* C2 (amended): while the task runs, the table holds exactly the ids of the
\* requests that were written to the transport and whose response has not
\* yet been handled; a caller that dropped its receiver keeps its entry.
C2_Outstanding ==
    task = "running" => DOMAIN channels = WrittenIds \ received

\* one call was answered and another one, canceled by its caller, still has
\* its entry
C2_Witness ==
    /\ task = "running"
    /\ \E c \in Callers : pc[c] = "canceled" /\ reqId[c] \in DOMAIN channels
    /\ \E d \in Callers : pc[d] = "done"

\* C3: requests are written to the transport in the order in which the
\* request channel accepted them.
IsPrefix(s, t) == Len(s) <= Len(t) /\ \A k \in 1 .. Len(s) : s[k] = t[k]

C3_WriteOrder == IsPrefix(wire, accepted)

\* two requests were written, with a response handled in between
C3_Witness ==
    /\ Len(wire) >= 2
    /\ accepted = wire
    /\ reqId[wire[1]] \in received
    /\ reqId[wire[2]] \in DOMAIN channels

\* the first response with id i that the reader will yield carries result r
NextResponseIs(i, r) ==
    \E k \in DOMAIN inbound :
       /\ inbound[k] = ResponseFrame(i, r)
       /\ \A j \in 1 .. (k - 1) :
             ~(inbound[j].kind = "Response" /\ inbound[j].id = i)

\* C4: under fair scheduling of the select! branches, a caller blocked in
\* execute whose request is registered and for whose id a well-formed
\* response has arrived eventually returns with the result of that response,
\* unless the task ends or the caller gives up first.
C4_ExecuteLiveness ==
    \A c \in Callers : \A r \in Results :
       (/\ task = "running"
        /\ pc[c] = "waiting"
        /\ reqId[c] \in DOMAIN channels
        /\ NextResponseIs(reqId[c], r))
       ~> (\/ pc[c] = "done" /\ reply[c] = ResponseFrame(reqId[c], r)
           \/ task # "running"
           \/ pc[c] = "canceled")

\* a call returned a non-null result while the task is still running and
\* another call is still waiting
C4_Witness ==
    /\ task = "running"
    /\ \E c \in Callers :
          /\ pc[c] = "done"
          /\ reply[c].id = FreshId(c)
    /\ \E d \in Callers : pc[d] = "waiting" /\ reqId[d] \in DOMAIN channels

\* stop has sent Shutdown and dropped the senders, and the reader of the
\* running task is at end of stream with nothing left to yield
StopSentAtEof ==
    task = "running" /\ stop = "joining" /\ readEof /\ inbound = <<>>

\* C5 as claimed: once stop has sent Shutdown and dropped the request sender
\* and the read direction is at end of stream, the task ends with Ok(()).
C5_Original ==
    [][ (StopSentAtEof /\ task' # "running") => task' = "Ok" ]_vars

\* C5 (amended): once stop has sent Shutdown and dropped the request sender
\* and the read direction is at end of stream, the task terminates and stop
\* returns the result of the task, which is Ok(()) unless the close of the
\* writer or a write of a still queued request fails; the task never exits
\* normally while the request channel is open or non-empty, a command is
\* queued, or frames are still to be read.
C5_Termination ==
    /\ [][ (task = "running" /\ task' = "Ok") =>
              /\ ~sendersAlive /\ requests = <<>> /\ commands = <<>>
              /\ inbound = <<>> /\ readEof ]_vars
    /\ [][ (StopSentAtEof /\ task' # "running") =>
              \/ task' = "Ok"
              \/ task' = "CommunicationFailure" /\ WriteFailurePossible ]_vars
    /\ (StopSentAtEof ~>
          (task # "running" /\ stop = "returned" /\ stopResult = task))

\* stop returned Ok(()) after the writer was closed, requests were written
\* and a response was handled
C5_Witness ==
    /\ stop = "returned" /\ stopResult = "Ok" /\ task = "Ok"
    /\ writerClosed
    /\ wire # <<>> /\ received # {}

\* C6: when the task is gone, no oneshot sender of a call that is still
\* waiting for its reply survives, so every such call completes with an
\* error (or is given up by its caller); none stays blocked.
C6_NoCallerLeftBlocked ==
    /\ [](task # "running" =>
            \A c \in Callers :
               (pc[c] = "waiting" /\ reply[c] = NoReply) => ~SinkHeld(c))
    /\ \A c \in Callers :
          (task # "running" /\ pc[c] = "waiting")
             ~> (pc[c] \in {"failed", "canceled"}
                    \/ (pc[c] = "done" /\ reply[c] # NoReply))

\* the task panicked; a call whose sender was in the table and a call whose
\* request was still queued both failed
C6_Witness ==
    /\ task = "panicked"
    /\ \E c \in Callers :
          /\ pc[c] = "failed" /\ c \in Range(wire)
          /\ reqId[c] # NoId /\ reqId[c] \notin received
    /\ \E d \in Callers :
          /\ pc[d] = "failed" /\ d \in Range(accepted) /\ d \notin Range(wire)

\* the next frame the reader yields is a response that selects no entry
UnknownResponseNext ==
    /\ task = "running" /\ inbound # <<>>
    /\ Head(inbound).kind = "Response"
    /\ (Head(inbound).id = NoId \/ Head(inbound).id \notin DOMAIN channels)

\* C7: a response whose id is not in the table (never sent, null, or already
\* answered) is dropped: no waiter receives it, the table is unchanged and
\* the task keeps running; a waiter receives at most one response.
C7_UnknownIdDropped ==
    [][ /\ \A res \in Frames :
              (ResponseHandled(res)
                 /\ (res.id = NoId \/ res.id \notin DOMAIN channels))
              => (channels' = channels /\ reply' = reply)
        /\ (UnknownResponseNext /\ ~WriteFailurePossible) => task' = "running"
        /\ \A c \in Callers : reply[c] # NoReply => reply'[c] = reply[c]
      ]_vars

\* a response with a never sent id was handled; the task runs, an entry is
\* still in the table and another call has its response
C7_Witness ==
    /\ task = "running"
    /\ BogusId \in received
    /\ inbound = <<>>
    /\ DOMAIN channels # {}
    /\ \E c \in Callers : reply[c] # NoReply

\* the next frame the reader yields answers a call whose caller gave up
CanceledResponseNext ==
    /\ task = "running" /\ inbound # <<>>
    /\ Head(inbound).kind = "Response"
    /\ Head(inbound).id \in DOMAIN channels
    /\ pc[channels[Head(inbound).id]] = "canceled"

\* C8: when the response for a call whose caller dropped the receiver
\* arrives, the task discards it (the entry is removed, nobody receives
\* anything), does not end and goes on with the other requests.
C8_CanceledReplyDiscarded ==
    [][ /\ \A res \in Frames :
              (ResponseHandled(res) /\ CanceledResponseNext) =>
                 /\ reply' = reply
                 /\ channels' = Remove(channels, res.id)
                 /\ requests' = requests
        /\ (CanceledResponseNext /\ ~WriteFailurePossible) => task' = "running"
      ]_vars

\* the response for a canceled call was discarded, a later call was served
C8_Witness ==
    /\ task = "running"
    /\ \E c \in Callers :
          /\ pc[c] = "canceled" /\ reply[c] = NoReply
          /\ reqId[c] \in received
          /\ \E d \in Callers \ {c} : pc[d] = "done" /\ c < d

\* C9: when a well-framed inbound message fails to decode, the task drops
\* that frame and keeps running.
C9_DecodeErrorNonFatal ==
    [][ (/\ task = "running" /\ inbound # <<>>
         /\ Head(inbound).kind = "Decode"
         /\ ~WriteFailurePossible)
        => (task' = "running" /\ channels' = channels) ]_vars

\* C10: when the read direction yields an error, the task ends by returning
\* CommunicationFailure, without panicking.
C10_ReadErrorReturnsErr ==
    [][ (/\ task = "running" /\ inbound # <<>>
         /\ Head(inbound).kind = "Io"
         /\ task' # "running")
        => task' = "CommunicationFailure" ]_vars

\* the read direction of the transport yields a fatal codec error next
FatalReadErrorNext ==
    /\ task = "running"
    /\ inbound # <<>>
    /\ Head(inbound).kind \in {"Io", "DataStreamCorrupted"}

\* C11: when the task terminates because of a fatal codec error, whether a
\* failed write (Io) or a fatal error of the read direction (Io,
\* DataStreamCorrupted), stop() returns that failure, CommunicationFailure,
\* whether the task ended before or after stop() was called.
C11_StopReturnsFatalError ==
    /\ []((stop = "returned" /\ task = "CommunicationFailure")
            => stopResult = "CommunicationFailure")
    /\ [][(FatalReadErrorNext /\ task' # "running")
            => JoinResult(task') = "CommunicationFailure"]_vars

(***************************************************************************)
(* Part 2: the stream codec of ovsdb/src/protocol/codec.rs behind the      *)
(* read half of a Framed transport.  A byte is one of eight: the three     *)
(* characters the scanner looks for, the backslash, one representative     *)
(* each of whitespace, of punctuation and of any other character, and one  *)
(* byte that occurs in no UTF-8 text (0xFF).                               *)
(***************************************************************************)
LBrace == "{"
RBrace == "}"
Quote == "\""
Backslash == "\\"
Colon == ":"
Space == " "
Digit == "1"
Invalid == "0xFF"

\* number of items the peer puts on the stream
MaxItems == 2

\* well-formed objects
EmptyObject == <<LBrace, RBrace>>
\* a closing brace inside a string, and an object inside the object
BraceInString == <<LBrace, Quote, RBrace, Quote, Colon, LBrace, RBrace, RBrace>>
EscapedBackslash ==
    <<LBrace, Quote, Backslash, Backslash, Quote, Colon, Digit, RBrace>>
EscapedQuote ==
    <<LBrace, Quote, Backslash, Quote, Quote, Colon, Digit, RBrace>>
EscapedQuoteBrace ==
    <<LBrace, Quote, Backslash, Quote, RBrace, Quote, Colon, Digit, RBrace>>
\* a balanced object that is not JSON
MissingMember == <<LBrace, Colon, RBrace>>
\* bytes between messages
Blank == <<Space>>
Garbage == <<Digit>>
\* a balanced object around a byte that is not UTF-8
InvalidUtf8 == <<LBrace, Invalid, RBrace>>

Items == {EmptyObject, BraceInString,
          EscapedBackslash, EscapedQuote, EscapedQuoteBrace,
          MissingMember, Blank, Garbage, InvalidUtf8}

RECURSIVE Flatten(_)
Flatten(ss) == IF ss = <<>> THEN <<>> ELSE Head(ss) \o Flatten(Tail(ss))

RECURSIVE SeqsUpTo(_, _)
SeqsUpTo(S, n) ==
    IF n = 0 THEN {<<>>}
    ELSE LET shorter == SeqsUpTo(S, n - 1)
         IN shorter \cup {Append(q, x) : q \in shorter, x \in S}
Streams == SeqsUpTo(Items, MaxItems) \ {<<>>}

(***************************************************************************)
(* serde_json::from_slice::<Message> on these bytes.  The readers take the *)
(* index of the next byte and yield the index behind what they read, or 0  *)
(* for a syntax error.  An object has at most one member (the alphabet has *)
(* no comma).                                                              *)
(***************************************************************************)
SyntaxError == 0

RECURSIVE SkipWhitespace(_, _)
SkipWhitespace(s, i) ==
    IF i <= Len(s) /\ s[i] = Space THEN SkipWhitespace(s, i + 1) ELSE i

\* behind the opening quote: up to the closing quote; a backslash takes the
\* next byte with it, and only \" and \\ are escapes among these bytes
RECURSIVE ParseString(_, _)
ParseString(s, i) ==
    IF i > Len(s) THEN SyntaxError
    ELSE IF s[i] = Quote THEN i + 1
    ELSE IF s[i] = Invalid THEN SyntaxError
    ELSE IF s[i] = Backslash
      THEN IF i + 1 <= Len(s) /\ s[i + 1] \in {Quote, Backslash}
             THEN ParseString(s, i + 2)
             ELSE SyntaxError
    ELSE ParseString(s, i + 1)

RECURSIVE ParseNumber(_, _)
ParseNumber(s, i) ==
    IF i <= Len(s) /\ s[i] = Digit THEN ParseNumber(s, i + 1) ELSE i

RECURSIVE ParseValue(_, _)
RECURSIVE ParseObject(_, _)
ParseValue(s, i0) ==
    LET i == SkipWhitespace(s, i0)
    IN IF i > Len(s) THEN SyntaxError
       ELSE CASE s[i] = Quote -> ParseString(s, i + 1)
              [] s[i] = Digit -> ParseNumber(s, i + 1)
              [] s[i] = LBrace -> ParseObject(s, i + 1)
              [] OTHER -> SyntaxError

\* behind the opening brace
ParseObject(s, i0) ==
    LET i == SkipWhitespace(s, i0)
    IN IF i > Len(s) THEN SyntaxError
       ELSE IF s[i] = RBrace THEN i + 1
       ELSE IF s[i] # Quote THEN SyntaxError
       ELSE LET k == ParseString(s, i + 1)
                c == SkipWhitespace(s, k)
            IN IF k = SyntaxError \/ c > Len(s) \/ s[c] # Colon
                 THEN SyntaxError
                 ELSE LET v == ParseValue(s, c + 1)
                          e == SkipWhitespace(s, v)
                      IN IF v # SyntaxError /\ e <= Len(s) /\ s[e] = RBrace
                           THEN e + 1
                           ELSE SyntaxError

\* the whole slice is one JSON object (Message is read with visit_map),
\* whitespace around it allowed, nothing else behind it
FromSliceOk(s) ==
    LET i == SkipWhitespace(s, 1)
    IN /\ i <= Len(s)
       /\ s[i] = LBrace
       /\ LET e == ParseObject(s, i + 1)
          IN e # SyntaxError /\ SkipWhitespace(s, e) > Len(s)

\* the JSON value of a slice: its text without insignificant whitespace
RECURSIVE Compact(_, _, _)
Compact(s, i, inString) ==
    IF i > Len(s) THEN <<>>
    ELSE IF inString
      THEN IF s[i] = Backslash /\ i < Len(s)
             THEN <<s[i], s[i + 1]>> \o Compact(s, i + 2, TRUE)
             ELSE <<s[i]>> \o Compact(s, i + 1, s[i] # Quote)
    ELSE IF s[i] = Space THEN Compact(s, i + 1, FALSE)
    ELSE <<s[i]>> \o Compact(s, i + 1, s[i] = Quote)

\* Result<Option<Message>, CodecError> of Codec::decode
DecodedMessage(s) == [kind |-> "Message", text |-> Compact(s, 1, FALSE)]
DecodeError == [kind |-> "Decode", text |-> <<>>]
DataStreamCorrupted == [kind |-> "DataStreamCorrupted", text |-> <<>>]
NoMessageYet == [kind |-> "None", text |-> <<>>]
\* decode does not return: the thread panics
Panic == [kind |-> "Panic", text |-> <<>>]

\* String::from_utf8(..) is Ok
FromUtf8Ok(s) == Invalid \notin Range(s)

WellFormed == {m \in Items : FromSliceOk(m)}

(***************************************************************************)
(* Codec::try_decode_message.                                              *)
(***************************************************************************)
\* src[offset..].iter().position(..): the first byte of `bytes` behind
\* `offset`, as the number of bytes up to and including it; 0 when none
Position(chunk, offset, bytes) ==
    LET hits == {i \in (offset + 1) .. Len(chunk) : chunk[i] \in bytes}
    IN IF hits = {} THEN 0 ELSE CHOOSE i \in hits : \A j \in hits : i <= j

Last(t) == t[Len(t)]
Pop(t) == SubSeq(t, 1, Len(t) - 1)

\* the while loop: `Complete` is the closing brace that empties the stack,
\* `Incomplete` the break / the end of src, `Corrupted` the missing `{`
RECURSIVE Scan(_, _, _)
Scan(chunk, offset, tg) ==
    IF offset >= Len(chunk)
      THEN [kind |-> "Incomplete", offset |-> offset, tags |-> tg]
    ELSE IF tg = <<>>
      THEN LET p == Position(chunk, offset, {LBrace})
           IN IF p = 0
                THEN [kind |-> "Corrupted", offset |-> offset, tags |-> tg]
                ELSE Scan(chunk, p, Append(tg, "Obj"))
    ELSE IF Last(tg) = "Str"
      THEN LET p == Position(chunk, offset, {Quote})
           IN IF p = 0
                THEN [kind |-> "Incomplete", offset |-> offset, tags |-> tg]
                ELSE Scan(chunk, p, Pop(tg))
    ELSE LET p == Position(chunk, offset, {Quote, LBrace, RBrace})
         IN IF p = 0
              THEN [kind |-> "Incomplete", offset |-> offset, tags |-> tg]
              ELSE CASE chunk[p] = Quote -> Scan(chunk, p, Append(tg, "Str"))
                     [] chunk[p] = LBrace -> Scan(chunk, p, Append(tg, "Obj"))
                     [] OTHER ->
                          IF Pop(tg) = <<>>
                            THEN [kind |-> "Complete", offset |-> p,
                                  tags |-> <<>>]
                            ELSE Scan(chunk, p, Pop(tg))

\* a scanner that keeps no bytes of a chunk without the final closing brace
TryDecodeMessage_Forgetful(d, tg, chunk) ==
    LET scan == Scan(chunk, 0, tg)
        whole == d \o chunk
    IN CASE scan.kind = "Corrupted" ->
              [result |-> DataStreamCorrupted, consume |-> 0,
               data |-> d, tags |-> scan.tags]
         [] scan.kind = "Incomplete" ->
              [result |-> NoMessageYet, consume |-> Len(chunk),
               data |-> d, tags |-> scan.tags]
         [] ~FromUtf8Ok(whole) ->
              [result |-> Panic, consume |-> 0,
               data |-> whole, tags |-> scan.tags]
         [] OTHER ->
              IF FromSliceOk(whole)
                THEN [result |-> DecodedMessage(whole), consume |-> scan.offset,
                      data |-> <<>>, tags |-> scan.tags]
                ELSE [result |-> DecodeError, consume |-> 0,
                      data |-> whole, tags |-> scan.tags]

\* the result, the number of bytes decode advances src by, and the fields
\* of the Codec afterwards
TryDecodeMessage(d, tg, chunk) ==
    LET scan == Scan(chunk, 0, tg)
        whole == d \o chunk
    IN CASE scan.kind = "Corrupted" ->
              [result |-> DataStreamCorrupted, consume |-> 0,
               data |-> d, tags |-> scan.tags]
         [] scan.kind = "Incomplete" ->
              [result |-> NoMessageYet, consume |-> Len(chunk),
               data |-> whole, tags |-> scan.tags]
         [] ~FromUtf8Ok(whole) ->
              [result |-> Panic, consume |-> 0,
               data |-> whole, tags |-> scan.tags]
         [] OTHER ->
              IF FromSliceOk(whole)
                THEN [result |-> DecodedMessage(whole), consume |-> scan.offset,
                      data |-> <<>>, tags |-> scan.tags]
                ELSE [result |-> DecodeError, consume |-> 0,
                      data |-> whole, tags |-> scan.tags]

(***************************************************************************)
(* FramedRead: read bytes into the buffer, call decode until it yields     *)
(* None, read again.                                                       *)
(***************************************************************************)
\* reader.next() has yielded an error: client_main stops at its todo!()
\* (client.rs:393) and the transport is dropped with the task
ReaderFailed == decoded # <<>> /\ Last(decoded).kind # "Message"

\* the socket delivers the next n bytes of the stream
Read(n) ==
    /\ ~readable
    /\ ~ReaderFailed
    /\ n \in 1 .. Len(pending)
    /\ src' = src \o SubSeq(pending, 1, n)
    /\ pending' = SubSeq(pending, n + 1, Len(pending))
    /\ readable' = TRUE
    /\ UNCHANGED <<stream, data, tags, decoded>>
    /\ UNCHANGED <<clientVars, envelopeVars, valueVars, schemaVars>>

\* Decoder::decode; a frame leaves the buffer readable, None and an error
\* make FramedRead read more
Decode ==
    /\ readable
    /\ LET r == TryDecodeMessage(data, tags, src)
       IN /\ data' = r.data
          /\ tags' = r.tags
          /\ src' = SubSeq(src, r.consume + 1, Len(src))
          /\ readable' = (r.result.kind = "Message")
          /\ decoded' = IF r.result = NoMessageYet
                          THEN decoded
                          ELSE Append(decoded, r.result)
    /\ UNCHANGED <<stream, pending>>
    /\ UNCHANGED <<clientVars, envelopeVars, valueVars, schemaVars>>

CodecInit ==
    /\ stream \in Streams
    /\ pending = Flatten(stream)
    /\ src = <<>>
    /\ data = <<>>
    /\ tags = <<>>
    /\ readable = FALSE
    /\ decoded = <<>>
    /\ ClientInit /\ EnvelopeIdle /\ ValueIdle /\ SchemaIdle

CodecNext ==
    \/ \E n \in 1 .. Len(pending) : Read(n)
    \/ Decode

CodecSpec == CodecInit /\ [][CodecNext]_vars

CodecTypeOK ==
    /\ Range(tags) \subseteq {"Obj", "Str"}
    /\ Range(decoded) \subseteq
         {DecodedMessage(m) : m \in WellFormed}
           \cup {DecodeError, DataStreamCorrupted, Panic}
    /\ Len(src) + Len(pending) <= Len(Flatten(stream))

(***************************************************************************)
(* Properties of the codec.                                                *)
(***************************************************************************)
\* nothing more will be read or decoded
Quiescent == ~readable /\ (pending = <<>> \/ ReaderFailed)

\* decode is about to find the closing brace of a message at `offset` of the
\* buffer, with more bytes behind it
ClosingBraceInsideChunk(offset) ==
    /\ readable
    /\ Scan(src, 0, tags).kind = "Complete"
    /\ Scan(src, 0, tags).offset = offset
    /\ offset < Len(src)

\* C12: when a chunk holds the closing brace of a message followed by bytes
\* of the next one, exactly the bytes up to that brace are parsed as the
\* message, the buffer is cleared and the rest stays to be scanned; two
\* well-formed messages sent back to back are both decoded, in order.
C12_RemainderKept ==
    /\ [][\A offset \in 1 .. Len(src) :
            (/\ ClosingBraceInsideChunk(offset)
             /\ FromSliceOk(data \o SubSeq(src, 1, offset)))
            => /\ decoded' = Append(decoded,
                        DecodedMessage(data \o SubSeq(src, 1, offset)))
               /\ data' = <<>>
               /\ src' = SubSeq(src, offset + 1, Len(src))]_vars
    /\ [](\A m1, m2 \in WellFormed :
            (stream = <<m1, m2>> /\ Quiescent)
            => decoded = <<DecodedMessage(m1), DecodedMessage(m2)>>)

\* decode is called between two messages
BetweenMessages == readable /\ tags = <<>> /\ src # <<>>
\* the bytes of the buffer in front of the first opening brace
LeadingBytes ==
    LET p == Position(src, 0, {LBrace})
    IN IF p = 0 THEN src ELSE SubSeq(src, 1, p - 1)

\* C13: between messages, a non-whitespace byte in front of the opening
\* brace makes decode fail with DataStreamCorrupted; whitespace in front of
\* it, and a chunk of whitespace only, is skipped without error.
C13_LeadingBytes ==
    [][BetweenMessages
        => IF \E i \in DOMAIN LeadingBytes : LeadingBytes[i] # Space
             THEN decoded' = Append(decoded, DataStreamCorrupted)
             ELSE decoded' = decoded \/ Last(decoded').kind = "Message"]_vars

\* C14: a backslash inside a string neutralizes the next byte: a message
\* whose strings hold escaped quotes or backslashes is framed at its true
\* closing brace, and nothing is reported before it.
C14_EscapesRespected ==
    \A m \in WellFormed :
        (Backslash \in Range(m) /\ stream = <<m>>)
        => /\ IsPrefix(decoded, <<DecodedMessage(m)>>)
           /\ Quiescent => decoded = <<DecodedMessage(m)>>

\* C15: after decode has returned CodecError::Decode the offending bytes
\* are consumed and the buffer and the tag stack of the codec are empty.
C15_DecodeErrorLeavesCodecClean ==
    [][(readable /\ decoded' = Append(decoded, DecodeError))
        => /\ data' = <<>>
           /\ tags' = <<>>
           /\ Len(src') < Len(src)]_vars

(***************************************************************************)
(* Part 3: the request envelope of ovsdb/src/protocol (request.rs,         *)
(* response.rs, message.rs, method/) and its JSON form.  A JSON value      *)
(* (serde_json::Value) is a record of its type and its content.            *)
(***************************************************************************)
JNull == [t |-> "null"]
JString(s) == [t |-> "string", s |-> s]
JArray(a) == [t |-> "array", a |-> a]
JObject(f) == [t |-> "object", o |-> f]
JNumber(n) == [t |-> "number", n |-> n]
JBool(b) == [t |-> "bool", b |-> b]

\* Result
Ok(x) == [ok |-> TRUE, v |-> x]
Err(e) == [ok |-> FALSE, e |-> e]

\* longest list of strings (echo arguments, where clauses)
MaxArgs == 2
\* longest list of operations of a transact call
MaxOps == 1

Names == {"a", "b"}
NameLists == SeqsUpTo(Names, MaxArgs)

\* uuid::Uuid: the 128-bit values; Option::None is 0
Uuids == {1, 2}
NoUuid == 0
\* Display of uuid::Uuid: lower-case hyphenated
Hyphenated(u) == "uuid-" \o ToString(u)
\* another text form Uuid::parse_str accepts
UpperCase(u) == "UUID-" \o ToString(u)
\* uuid::Uuid::parse_str
ParseStr(s) ==
    IF \E u \in Uuids : s \in {Hyphenated(u), UpperCase(u)}
      THEN Ok(CHOOSE u \in Uuids : s \in {Hyphenated(u), UpperCase(u)})
      ELSE Err("invalid uuid")

\* Serialize for Uuid
UuidSerialize(u) == JArray(<<JString("uuid"), JString(Hyphenated(u))>>)
\* Option<Uuid>
OptionUuidSerialize(id) == IF id = NoUuid THEN JNull ELSE UuidSerialize(id)

\* Deserialize for Uuid (UuidVisitor::visit_seq); serde_json refuses
\* elements left over in the array
UuidDeserialize(j) ==
    IF j.t # "array" THEN Err("invalid type")
    ELSE IF Len(j.a) = 0 THEN Err("uuid specified, but value not provided")
    ELSE IF j.a[1].t # "string" THEN Err("invalid type")
    ELSE IF j.a[1].s # "uuid" THEN Err("invalid value")
    ELSE IF Len(j.a) = 1 THEN Err("panic: uuid value")
    ELSE IF j.a[2].t # "string" THEN Err("invalid type")
    ELSE IF ~ParseStr(j.a[2].s).ok THEN Err("invalid uuid")
    ELSE IF Len(j.a) > 2 THEN Err("invalid length")
    ELSE ParseStr(j.a[2].s)

(***************************************************************************)
(* Methods and their parameters (method/mod.rs, echo.rs, get_schema.rs,    *)
(* transact.rs).                                                           *)
(***************************************************************************)
Methods == {"Echo", "ListDatabases", "GetSchema", "Transact"}

\* Serialize for Method
MethodSerialize(m) ==
    JString(CASE m = "Echo" -> "echo"
              [] m = "ListDatabases" -> "list_dbs"
              [] m = "GetSchema" -> "get_schema"
              [] OTHER -> "transact")

\* TryFrom<String> for Method
MethodTryFrom(s) ==
    CASE s = "echo" -> Ok("Echo")
      [] s = "list_dbs" -> Ok("ListDatabases")
      [] s = "get_schema" -> Ok("GetSchema")
      [] s = "transact" -> Ok("Transact")
      [] OTHER -> Err("Invalid method")

\* Option<Box<dyn Params>>::None
NoParams == [type |-> "None"]
EchoParams(args) == [type |-> "EchoParams", args |-> args]
GetSchemaParams(database) == [type |-> "GetSchemaParams", database |-> database]
Select(table, clauses) == [op |-> "select", table |-> table, clauses |-> clauses]
TransactParams(database, operations) ==
    [type |-> "TransactParams", database |-> database,
     operations |-> operations]

Operations == {Select(t, c) : t \in Names, c \in NameLists}

\* Vec<String>
StringsSerialize(l) == JArray([i \in DOMAIN l |-> JString(l[i])])
\* derived Serialize of Operation, internally tagged by "op"
OperationSerialize(o) ==
    JObject([k \in {"op", "table", "where"} |->
               CASE k = "op" -> JString(o.op)
                 [] k = "table" -> JString(o.table)
                 [] OTHER -> StringsSerialize(o.clauses)])

\* EchoParams and GetSchemaParams are newtypes and serialize as what they
\* wrap; TransactParams writes the database and then each operation
ParamsSerialize(p) ==
    CASE p.type = "EchoParams" -> StringsSerialize(p.args)
      [] p.type = "GetSchemaParams" -> JString(p.database)
      [] OTHER ->
           JArray(<<JString(p.database)>> \o
                  [i \in DOMAIN p.operations |->
                     OperationSerialize(p.operations[i])])

\* Vec<String> from a JSON value
StringsDeserialize(j) ==
    IF j.t = "array" /\ \A i \in DOMAIN j.a : j.a[i].t = "string"
      THEN Ok([i \in DOMAIN j.a |-> j.a[i].s])
      ELSE Err("invalid type")

\* derived Deserialize of Operation
OperationDeserialize(j) ==
    IF /\ j.t = "object"
       /\ DOMAIN j.o = {"op", "table", "where"}
       /\ j.o["op"] = JString("select")
       /\ j.o["table"].t = "string"
       /\ StringsDeserialize(j.o["where"]).ok
      THEN Ok(Select(j.o["table"].s, StringsDeserialize(j.o["where"]).v))
      ELSE Err("invalid operation")

EchoParamsDeserialize(j) ==
    IF StringsDeserialize(j).ok
      THEN Ok(EchoParams(StringsDeserialize(j).v))
      ELSE Err("invalid type")

GetSchemaParamsDeserialize(j) ==
    IF j.t = "string" THEN Ok(GetSchemaParams(j.s)) ELSE Err("invalid type")

\* derived Deserialize of the struct TransactParams: from an array, the
\* fields in order: the database, then the list of operations
TransactParamsDeserialize(j) ==
    IF /\ j.t = "array"
       /\ Len(j.a) = 2
       /\ j.a[1].t = "string"
       /\ j.a[2].t = "array"
       /\ \A i \in DOMAIN j.a[2].a : OperationDeserialize(j.a[2].a[i]).ok
      THEN Ok(TransactParams(j.a[1].s,
                [i \in DOMAIN j.a[2].a |-> OperationDeserialize(j.a[2].a[i]).v]))
      ELSE Err("invalid params")

(***************************************************************************)
(* Request, Response, Message.                                             *)
(***************************************************************************)
\* Request::new: a fresh id
NewRequest(id, method, params) ==
    [id |-> id, method |-> method, params |-> params]

\* the requests the client methods echo, list_databases, get_schema and
\* transact build
Requests ==
    {NewRequest(id, "Echo", EchoParams(args)) : id \in Uuids, args \in NameLists}
    \cup {NewRequest(id, "ListDatabases", NoParams) : id \in Uuids}
    \cup {NewRequest(id, "GetSchema", GetSchemaParams(d)) :
            id \in Uuids, d \in Names}
    \cup {NewRequest(id, "Transact", TransactParams(d, ops)) :
            id \in Uuids, d \in Names, ops \in SeqsUpTo(Operations, MaxOps)}

\* Serialize for Request: a map of three entries
RequestSerialize(q) ==
    JObject([k \in {"id", "method", "params"} |->
               CASE k = "id" -> OptionUuidSerialize(q.id)
                 [] k = "method" -> MethodSerialize(q.method)
                 [] OTHER -> IF q.params = NoParams
                               THEN JArray(<<>>)
                               ELSE ParamsSerialize(q.params)])

\* the entries of a serde_json::Map come in the order of their keys
KeyOrder == <<"error", "id", "method", "params", "result">>

\* RequestVisitor::visit_map, the loop over the entries (k, v): the id and
\* the method are read from k
RECURSIVE VisitEntries(_, _, _)
VisitEntries(o, i, acc) ==
    IF i > Len(KeyOrder) THEN Ok(acc)
    ELSE LET k == KeyOrder[i]
         IN IF k \notin DOMAIN o THEN VisitEntries(o, i + 1, acc)
            ELSE CASE k = "id" ->
                        IF ParseStr(k).ok
                          THEN VisitEntries(o, i + 1,
                                 [acc EXCEPT !.id = ParseStr(k).v])
                          ELSE Err("invalid uuid")
                   [] k = "method" ->
                        IF MethodTryFrom(k).ok
                          THEN VisitEntries(o, i + 1,
                                 [acc EXCEPT !.method = MethodTryFrom(k).v])
                          ELSE Err("Invalid method")
                   [] k = "params" ->
                        VisitEntries(o, i + 1, [acc EXCEPT !.params = o[k]])
                   [] OTHER -> Err("unknown field")

\* the params of a known method
MethodParamsDeserialize(m, j) ==
    CASE m = "ListDatabases" -> Ok(NoParams)
      [] j = NoJson -> Err("missing field params")
      [] m = "Echo" -> EchoParamsDeserialize(j)
      [] m = "GetSchema" -> GetSchemaParamsDeserialize(j)
      [] OTHER -> TransactParamsDeserialize(j)

\* Deserialize for Request
RequestDeserialize(j) ==
    IF j.t # "object" THEN Err("invalid type")
    ELSE LET seen == VisitEntries(j.o, 1,
                       [id |-> NoUuid, method |-> "None", params |-> NoJson])
         IN IF ~seen.ok THEN seen
            ELSE IF seen.v.method = "None" THEN Err("missing field method")
            ELSE LET p == MethodParamsDeserialize(seen.v.method, seen.v.params)
                 IN IF p.ok
                      THEN Ok(NewRequest(seen.v.id, seen.v.method, p.v))
                      ELSE p

\* derived Deserialize of Response: three optional fields, null is None,
\* other fields are ignored
NewResponse(id, result, error) ==
    [id |-> id, result |-> result, error |-> error]
Field(o, k) == IF k \in DOMAIN o THEN o[k] ELSE JNull
ResponseDeserialize(j) ==
    IF j.t # "object" THEN Err("invalid type")
    ELSE LET id == Field(j.o, "id")
             error == Field(j.o, "error")
         IN IF id # JNull /\ ~UuidDeserialize(id).ok THEN UuidDeserialize(id)
            ELSE IF error.t \notin {"null", "string"} THEN Err("invalid type")
            ELSE Ok(NewResponse(IF id = JNull THEN NoUuid
                                              ELSE UuidDeserialize(id).v,
                                Field(j.o, "result"), error))

\* Deserialize for Message (MessageVisitor::visit_map)
MessageDeserialize(j) ==
    IF j.t # "object" THEN [kind |-> "Error", error |-> "invalid type"]
    ELSE IF "method" \in DOMAIN j.o
      THEN LET r == RequestDeserialize(j)
           IN IF r.ok THEN [kind |-> "Request", request |-> r.v]
                      ELSE [kind |-> "Error", error |-> r.e]
      ELSE LET r == ResponseDeserialize(j)
           IN IF r.ok THEN [kind |-> "Response", response |-> r.v]
                      ELSE [kind |-> "Error", error |-> r.e]

(***************************************************************************)
(* The envelope on its way: the client builds and serializes a request,    *)
(* or the peer sends a JSON object; the reader deserializes a Message.     *)
(***************************************************************************)
\* the JSON objects a peer may send
PeerIds == {UuidSerialize(u) : u \in Uuids}
           \cup {JNull, JString(Hyphenated(1)), JArray(<<JString("uuid")>>)}
PeerParams == {JArray(<<>>), StringsSerialize(<<"a">>), JString("a")}
PeerMethods == {MethodSerialize(m) : m \in Methods} \cup {JString("monitor")}
PeerResults == {JNull, StringsSerialize(<<"a">>)}
PeerErrors == {JNull, JString("e")}

RequestObject(id, method, params) ==
    JObject([k \in {"id", "method", "params"} |->
               CASE k = "id" -> id [] k = "method" -> method [] OTHER -> params])
ResponseObject(id, result, error) ==
    JObject([k \in {"id", "result", "error"} |->
               CASE k = "id" -> id [] k = "result" -> result [] OTHER -> error])
Notification(method, params) ==
    JObject([k \in {"method", "params"} |->
               IF k = "method" THEN method ELSE params])

PeerObjects ==
    {RequestObject(i, m, p) : i \in PeerIds, m \in PeerMethods, p \in PeerParams}
    \cup {ResponseObject(i, r, e) :
            i \in PeerIds, r \in PeerResults, e \in PeerErrors}
    \cup {Notification(m, p) : m \in PeerMethods, p \in PeerParams}
    \cup {JObject(EmptyMap)}

\* one of echo, list_databases, get_schema, transact builds its request
BuildRequest(q) ==
    /\ request = NoRequest
    /\ json = NoJson
    /\ request' = q
    /\ UNCHANGED <<json, message>>
    /\ UNCHANGED <<clientVars, codecVars, valueVars, schemaVars>>

\* Encoder::encode: serde_json::to_vec of the message
SerializeRequest ==
    /\ request # NoRequest
    /\ json = NoJson
    /\ json' = RequestSerialize(request)
    /\ UNCHANGED <<request, message>>
    /\ UNCHANGED <<clientVars, codecVars, valueVars, schemaVars>>

\* the peer sends an object
ReceiveObject(o) ==
    /\ request = NoRequest
    /\ json = NoJson
    /\ json' = o
    /\ UNCHANGED <<request, message>>
    /\ UNCHANGED <<clientVars, codecVars, valueVars, schemaVars>>

\* serde_json::from_slice::<Message>
DeserializeMessage ==
    /\ json # NoJson
    /\ message = NoMessage
    /\ message' = MessageDeserialize(json)
    /\ UNCHANGED <<request, json>>
    /\ UNCHANGED <<clientVars, codecVars, valueVars, schemaVars>>

EnvelopeNext ==
    \/ \E q \in Requests : BuildRequest(q)
    \/ SerializeRequest
    \/ \E o \in PeerObjects : ReceiveObject(o)
    \/ DeserializeMessage

EnvelopeSpec == Init /\ [][EnvelopeNext]_vars

EnvelopeTypeOK ==
    /\ request \in Requests \cup {NoRequest}
    /\ json \in PeerObjects \cup {RequestSerialize(q) : q \in Requests}
                 \cup {NoJson}
    /\ message.kind \in {"none", "Request", "Response", "Error"}

(***************************************************************************)
(* Properties of the envelope.                                             *)
(***************************************************************************)
\* a JSON-RPC request: an id, a known method, and params that fit it
IsRequestObject(j) ==
    /\ j.t = "object"
    /\ DOMAIN j.o = {"id", "method", "params"}
    /\ UuidDeserialize(j.o["id"]).ok
    /\ j.o["method"].t = "string"
    /\ MethodTryFrom(j.o["method"].s).ok
    /\ MethodParamsDeserialize(MethodTryFrom(j.o["method"].s).v,
                               j.o["params"]).ok
\* the request such an object stands for
RequestOf(j) ==
    NewRequest(UuidDeserialize(j.o["id"]).v,
               MethodTryFrom(j.o["method"].s).v,
               MethodParamsDeserialize(MethodTryFrom(j.o["method"].s).v,
                                       j.o["params"]).v)
\* a JSON-RPC response: no method, the id null or a uuid, the error null or
\* a string
IsResponseObject(j) ==
    /\ j.t = "object"
    /\ "method" \notin DOMAIN j.o
    /\ Field(j.o, "id") = JNull \/ UuidDeserialize(Field(j.o, "id")).ok
    /\ Field(j.o, "error").t \in {"null", "string"}

\* C16: the message decoder dispatches on the `method` field: an object
\* with a method (known name, id, params) decodes to Message::Request
\* carrying that method, id and params; an object without a method decodes
\* to Message::Response.
C16_MethodDispatch ==
    message # NoMessage
    => /\ IsRequestObject(json)
          => message = [kind |-> "Request", request |-> RequestOf(json)]
       /\ IsResponseObject(json) => message.kind = "Response"

\* C17: every request built by Request::new serializes to one JSON object
\* with the fields id, method and params, and deserializing that object
\* yields a request with the same id, method and params.
C17_RequestRoundTrip ==
    (request # NoRequest /\ message # NoMessage)
    => /\ json.t = "object"
       /\ DOMAIN json.o = {"id", "method", "params"}
       /\ message = [kind |-> "Request", request |-> request]

\* C18: the request of Client::get_schema(d) carries params = [d], an array
\* of one element, not the bare string d.
C18_GetSchemaParamsArray ==
    (request # NoRequest /\ request.method = "GetSchema" /\ json # NoJson)
    => json.o["params"] = StringsSerialize(<<request.params.database>>)

(***************************************************************************)
(* Part 4: the value algebra of ovsdb/src/protocol (uuid.rs, set.rs,       *)
(* map.rs, optional.rs).  A value is a record of its Rust type and its     *)
(* content; the element types are String and Uuid.                         *)
(***************************************************************************)
UuidValue(u) == [type |-> "Uuid", uuid |-> u]
\* Set<String>(Vec<String>)
SetValue(l) == [type |-> "Set", strings |-> l]
\* UuidSet(Vec<Uuid>)
UuidSetValue(l) == [type |-> "UuidSet", uuids |-> l]
\* Map<String, String>(BTreeMap): a function from its keys
MapValue(f) == [type |-> "Map", entries |-> f]
\* Option<T>
Some(x) == [some |-> TRUE, x |-> x]
None == [some |-> FALSE]
\* Optional<String>, Optional<Uuid>
OptionalString(o) == [type |-> "OptionalString", string |-> o]
OptionalUuid(o) == [type |-> "OptionalUuid", uuid |-> o]
\* the Option inside an Optional
Inner(x) == IF x.type = "OptionalString" THEN x.string ELSE x.uuid

\* an enumeration of a column with choices, as in test_parse: TestFailMode
\* with rename_all = "snake_case" and Default = None
Variants == {"Secure", "Standalone", "None"}
DefaultVariant == "None"
WireName(v) ==
    CASE v = "Secure" -> "secure" [] v = "Standalone" -> "standalone"
      [] OTHER -> "none"
EnumValue(v) == [type |-> "Enum", variant |-> v]

ValueTypes ==
    {"Uuid", "Set", "UuidSet", "Map", "OptionalString", "OptionalUuid", "Enum"}

UuidLists == SeqsUpTo(Uuids, MaxArgs)
Maps == UNION {[K -> Names] : K \in SUBSET Names}

Values ==
    {UuidValue(u) : u \in Uuids}
    \cup {SetValue(l) : l \in NameLists}
    \cup {UuidSetValue(l) : l \in UuidLists}
    \cup {MapValue(f) : f \in Maps}
    \cup {OptionalString(Some(n)) : n \in Names} \cup {OptionalString(None)}
    \cup {OptionalUuid(Some(u)) : u \in Uuids} \cup {OptionalUuid(None)}
    \cup {EnumValue(v) : v \in Variants}

\* the keys of a BTreeMap<String, _> come in the order of the strings
NameOrder == <<"a", "b">>
RECURSIVE PairsFrom(_, _)
PairsFrom(f, i) ==
    IF i > Len(NameOrder) THEN <<>>
    ELSE IF NameOrder[i] \in DOMAIN f
      THEN <<JArray(<<JString(NameOrder[i]), JString(f[NameOrder[i]])>>)>>
           \o PairsFrom(f, i + 1)
      ELSE PairsFrom(f, i + 1)

\* a two-element array headed by its tag
Tagged(tag, j) == JArray(<<JString(tag), j>>)

\* enumeration::serialize: the default variant as Set::<i32>(vec![]), any
\* other variant by its derived Serialize
EnumSerialize(v) ==
    IF v = DefaultVariant THEN Tagged("set", JArray(<<>>))
                          ELSE JString(WireName(v))

\* Serialize for Uuid, Set, UuidSet, Map, Optional, and enumerations
ValueSerialize(x) ==
    CASE x.type = "Uuid" -> UuidSerialize(x.uuid)
      [] x.type = "Enum" -> EnumSerialize(x.variant)
      [] x.type = "Set" -> Tagged("set", StringsSerialize(x.strings))
      [] x.type = "UuidSet" ->
           Tagged("set", JArray([i \in DOMAIN x.uuids |->
                                   UuidSerialize(x.uuids[i])]))
      [] x.type = "Map" -> Tagged("map", JArray(PairsFrom(x.entries, 1)))
      [] x.type = "OptionalString" ->
           IF x.string.some THEN JString(x.string.x)
                            ELSE Tagged("map", JArray(<<>>))
      [] OTHER ->
           IF x.uuid.some THEN UuidSerialize(x.uuid.x)
                          ELSE Tagged("map", JArray(<<>>))

\* Vec<Uuid> from a JSON value
UuidsDeserialize(j) ==
    IF j.t = "array" /\ \A i \in DOMAIN j.a : UuidDeserialize(j.a[i]).ok
      THEN Ok([i \in DOMAIN j.a |-> UuidDeserialize(j.a[i]).v])
      ELSE Err("invalid type")

\* Deserialize for Set<String> (SetVisitor::visit_seq); the two unwrap()
\* panic on a missing element
SetDeserialize(j) ==
    IF j.t # "array" THEN Err("invalid type")
    ELSE IF Len(j.a) = 0 THEN Err("panic: unwrap")
    ELSE IF j.a[1].t # "string" THEN Err("invalid type")
    ELSE IF j.a[1].s # "set" THEN Err("invalid value")
    ELSE IF Len(j.a) = 1 THEN Err("panic: unwrap")
    ELSE IF ~StringsDeserialize(j.a[2]).ok THEN Err("invalid type")
    ELSE IF Len(j.a) > 2 THEN Err("invalid length")
    ELSE Ok(SetValue(StringsDeserialize(j.a[2]).v))

\* Deserialize for UuidSet (UuidSetVisitor::visit_seq)
UuidSetDeserialize(j) ==
    IF j.t # "array" THEN Err("invalid type")
    ELSE IF Len(j.a) = 0 THEN Err("panic: unwrap")
    ELSE IF j.a[1].t # "string" THEN Err("invalid type")
    ELSE IF j.a[1].s \notin {"set", "uuid"} THEN Err("invalid value")
    ELSE IF Len(j.a) = 1 THEN Err("panic: unwrap")
    ELSE IF j.a[1].s = "set"
      THEN IF ~UuidsDeserialize(j.a[2]).ok THEN Err("invalid type")
           ELSE IF Len(j.a) > 2 THEN Err("invalid length")
           ELSE Ok(UuidSetValue(UuidsDeserialize(j.a[2]).v))
    ELSE IF j.a[2].t # "string" THEN Err("invalid type")
    ELSE IF ~ParseStr(j.a[2].s).ok THEN Err("invalid uuid")
    ELSE IF Len(j.a) > 2 THEN Err("invalid length")
    ELSE Ok(UuidSetValue(<<ParseStr(j.a[2].s).v>>))

\* a (String, String) tuple
IsPair(j) ==
    /\ j.t = "array"
    /\ Len(j.a) = 2
    /\ j.a[1].t = "string"
    /\ j.a[2].t = "string"
\* BTreeMap::insert of the pairs in order: the last value of a key stays
MapFromPairs(ps) ==
    [k \in {ps[i].a[1].s : i \in DOMAIN ps} |->
       LET last == CHOOSE i \in DOMAIN ps :
                     /\ ps[i].a[1].s = k
                     /\ \A n \in DOMAIN ps : ps[n].a[1].s = k => n <= i
       IN ps[last].a[2].s]

\* Deserialize for Map<String, String> (MapVisitor::visit_seq)
MapDeserialize(j) ==
    IF j.t # "array" THEN Err("invalid type")
    ELSE IF Len(j.a) = 0 THEN Err("map specified, but values not provided")
    ELSE IF j.a[1].t # "string" THEN Err("invalid type")
    ELSE IF j.a[1].s # "map" THEN Err("invalid value")
    ELSE IF Len(j.a) = 1 THEN Err("panic: map values")
    ELSE IF j.a[2].t # "array" \/ \E i \in DOMAIN j.a[2].a : ~IsPair(j.a[2].a[i])
      THEN Err("invalid type")
    ELSE IF Len(j.a) > 2 THEN Err("invalid length")
    ELSE Ok(MapValue(MapFromPairs(j.a[2].a)))

\* the empty-set test of Deserialize for Optional
IsEmptySet(j) ==
    /\ j.t = "array"
    /\ Len(j.a) = 2
    /\ j.a[1] = JString("set")
    /\ j.a[2].t = "array"
    /\ Len(j.a[2].a) = 0

\* Deserialize for Optional<String> and Optional<Uuid>
OptionalStringDeserialize(j) ==
    IF IsEmptySet(j) THEN Ok(OptionalString(None))
    ELSE IF j.t = "string" THEN Ok(OptionalString(Some(j.s)))
    ELSE Err("invalid type")
OptionalUuidDeserialize(j) ==
    IF IsEmptySet(j) THEN Ok(OptionalUuid(None))
    ELSE IF UuidDeserialize(j).ok THEN Ok(OptionalUuid(Some(UuidDeserialize(j).v)))
    ELSE UuidDeserialize(j)

\* Deserialize for Set<i32>, reduced to whether the set is empty
SetI32Deserialize(j) ==
    IF j.t # "array" THEN Err("invalid type")
    ELSE IF Len(j.a) = 0 THEN Err("panic: unwrap")
    ELSE IF j.a[1].t # "string" THEN Err("invalid type")
    ELSE IF j.a[1].s # "set" THEN Err("invalid value")
    ELSE IF Len(j.a) = 1 THEN Err("panic: unwrap")
    ELSE IF j.a[2].t # "array" \/ \E i \in DOMAIN j.a[2].a : j.a[2].a[i].t # "number"
      THEN Err("invalid type")
    ELSE IF Len(j.a) > 2 THEN Err("invalid length")
    ELSE Ok(Len(j.a[2].a) = 0)

\* enumeration::deserialize
EnumDeserialize(j) ==
    IF j.t = "string"
      THEN IF \E v \in Variants : WireName(v) = j.s
             THEN Ok(EnumValue(CHOOSE v \in Variants : WireName(v) = j.s))
             ELSE Err("unknown variant")
    ELSE IF ~SetI32Deserialize(j).ok THEN SetI32Deserialize(j)
    ELSE IF SetI32Deserialize(j).v THEN Ok(EnumValue(DefaultVariant))
    ELSE Err("expected empty set for enum")

\* serde_json::from_value::<T> for the container type T
ValueDeserialize(type, j) ==
    CASE type = "Uuid" ->
           IF UuidDeserialize(j).ok THEN Ok(UuidValue(UuidDeserialize(j).v))
                                    ELSE UuidDeserialize(j)
      [] type = "Set" -> SetDeserialize(j)
      [] type = "UuidSet" -> UuidSetDeserialize(j)
      [] type = "Map" -> MapDeserialize(j)
      [] type = "Enum" -> EnumDeserialize(j)
      [] type = "OptionalString" -> OptionalStringDeserialize(j)
      [] OTHER -> OptionalUuidDeserialize(j)

(***************************************************************************)
(* A value on its way: the application builds and serializes a value, or   *)
(* the peer sends JSON where a given type is expected; the reader          *)
(* deserializes it as that type.                                           *)
(***************************************************************************)
\* the type the reader asks for, with no value built here
Declared(type) == [type |-> type]

\* the JSON a peer may send
WireValues ==
    {ValueSerialize(x) : x \in Values}
    \cup {JString(n) : n \in Names}
    \cup {Tagged("set", JArray(<<>>)),
          Tagged("uuid", JString(UpperCase(1))),
          Tagged("uuid", JString("a")),
          Tagged("named-uuid", JString("a")),
          Tagged("set", JArray(<<JNumber(1)>>)),
          JArray(<<JString("set")>>),
          JArray(<<JString("map")>>),
          JArray(<<JString("uuid")>>),
          JArray(<<>>),
          JNull}

Construct(x) ==
    /\ value = NoValue
    /\ encoded = NoJson
    /\ value' = x
    /\ UNCHANGED <<encoded, readBack>>
    /\ UNCHANGED <<clientVars, codecVars, envelopeVars, schemaVars>>

Serialize ==
    /\ value \in Values
    /\ encoded = NoJson
    /\ encoded' = ValueSerialize(value)
    /\ UNCHANGED <<value, readBack>>
    /\ UNCHANGED <<clientVars, codecVars, envelopeVars, schemaVars>>

Receive(type, j) ==
    /\ value = NoValue
    /\ encoded = NoJson
    /\ value' = Declared(type)
    /\ encoded' = j
    /\ UNCHANGED readBack
    /\ UNCHANGED <<clientVars, codecVars, envelopeVars, schemaVars>>

Deserialize ==
    /\ encoded # NoJson
    /\ readBack = NoValue
    /\ readBack' = ValueDeserialize(value.type, encoded)
    /\ UNCHANGED <<value, encoded>>
    /\ UNCHANGED <<clientVars, codecVars, envelopeVars, schemaVars>>

ValueNext ==
    \/ \E x \in Values : Construct(x)
    \/ Serialize
    \/ \E type \in ValueTypes, j \in WireValues : Receive(type, j)
    \/ Deserialize

ValueSpec == Init /\ [][ValueNext]_vars

ValueTypeOK ==
    /\ value \in Values \cup {Declared(type) : type \in ValueTypes} \cup {NoValue}
    /\ encoded \in WireValues \cup {NoJson}
    /\ readBack # NoValue => (readBack.ok => readBack.v.type \in ValueTypes)

(***************************************************************************)
(* Properties of the value algebra.                                        *)
(***************************************************************************)
IsOptional(x) == x \in Values /\ x.type \in {"OptionalString", "OptionalUuid"}
\* the encoding of the value inside a present optional
InnerEncoding(x) ==
    IF x.type = "OptionalString" THEN JString(x.string.x)
                                 ELSE UuidSerialize(x.uuid.x)

\* C19: Optional<T> serializes to the empty set ["set", []] when absent and
\* to exactly the encoding of the inner value when present.
C19_OptionalEncoding ==
    (IsOptional(value) /\ encoded # NoJson)
    => encoded = IF Inner(value).some THEN InnerEncoding(value)
                                 ELSE Tagged("set", JArray(<<>>))

\* C20: for every value of Uuid, Set<T>, UuidSet, Map<K,V> and Optional<T>,
\* the empty set, the empty map and the absent optional included, decoding
\* its encoding yields the value.
C20_ValueRoundTrip ==
    (value \in Values /\ readBack # NoValue) => readBack = Ok(value)

\* Deserialize for String: a JSON string, nothing else
StringDeserialize(j) ==
    IF j.t = "string" THEN Ok(j.s) ELSE Err("invalid type")

\* C21: the Set<T> decoder accepts both wire forms of a set: ["set", [v, ...]]
\* decodes to the listed elements, and a single bare scalar v decodes to the
\* one-element set containing v.
C21_SetAcceptsBothForms ==
    (value = Declared("Set") /\ readBack # NoValue)
    => /\ \A l \in NameLists :
            encoded = Tagged("set", StringsSerialize(l))
            => readBack = Ok(SetValue(l))
       /\ StringDeserialize(encoded).ok
            => readBack = Ok(SetValue(<<StringDeserialize(encoded).v>>))

\* a returned decode error, as opposed to a panic of the decoder
IsDecodeError(r) ==
    /\ ~r.ok
    /\ r.e \notin {"panic: uuid value", "panic: unwrap", "panic: map values"}

\* C22: ["set", []] decodes by the declared type: as Set<T> to the empty set,
\* as Optional<T> to the absent value for every T; any other input to the
\* Optional<T> decoder goes to the decoder of T and yields Some(t) or the
\* decode error of T.
C22_ContextGoverns ==
    readBack # NoValue
    => /\ (value = Declared("Set") /\ encoded = Tagged("set", JArray(<<>>)))
            => readBack = Ok(SetValue(<<>>))
       /\ (value = Declared("OptionalString") /\ encoded # NoJson)
            => readBack =
                 IF encoded = Tagged("set", JArray(<<>>))
                   THEN Ok(OptionalString(None))
                 ELSE IF StringDeserialize(encoded).ok
                   THEN Ok(OptionalString(Some(StringDeserialize(encoded).v)))
                 ELSE StringDeserialize(encoded)
       /\ (value = Declared("OptionalUuid") /\ encoded # NoJson)
            => /\ readBack =
                    IF encoded = Tagged("set", JArray(<<>>))
                      THEN Ok(OptionalUuid(None))
                    ELSE IF UuidDeserialize(encoded).ok
                      THEN Ok(OptionalUuid(Some(UuidDeserialize(encoded).v)))
                    ELSE UuidDeserialize(encoded)
               /\ readBack.ok \/ IsDecodeError(readBack)

\* C23: the enumeration codec: the default variant encodes as ["set", []],
\* every other variant as its wire name; decoding maps a string to the
\* variant of exactly that name, the empty set to the default variant and
\* anything else to an error; decoding the encoding of a variant yields it.
C23_EnumCodec ==
    /\ (value \in Values /\ value.type = "Enum" /\ encoded # NoJson)
         => encoded = IF value.variant = DefaultVariant
                        THEN Tagged("set", JArray(<<>>))
                        ELSE JString(WireName(value.variant))
    /\ (value.type = "Enum" /\ readBack # NoValue)
         => /\ \A v \in Variants :
                  encoded = JString(WireName(v)) => readBack = Ok(EnumValue(v))
            /\ encoded = Tagged("set", JArray(<<>>))
                  => readBack = Ok(EnumValue(DefaultVariant))
            /\ (/\ encoded # Tagged("set", JArray(<<>>))
                /\ \A v \in Variants : encoded # JString(WireName(v)))
                  => IsDecodeError(readBack)
            /\ value \in Values => readBack = Ok(value)

(***************************************************************************)
(* Part 5: the schema parser of ovsdb/src/schema (atomic.rs, kind.rs,      *)
(* column.rs, table.rs, mod.rs) and the field classification of            *)
(* ovsdb-build/src/field.rs.                                               *)
(***************************************************************************)
Atomics == {"Boolean", "Integer", "Real", "String", "Uuid"}
\* the name of a variant under rename_all = "lowercase" (and Display)
Lowercase ==
    [Boolean |-> "boolean", Integer |-> "integer", Real |-> "real",
     String |-> "string", Uuid |-> "uuid"]
\* FromStr for Atomic: the lower-case name or the name of the variant
AtomicFromStr(s) ==
    IF \E a \in Atomics : s \in {Lowercase[a], a}
      THEN Ok(CHOOSE a \in Atomics : s \in {Lowercase[a], a})
      ELSE Err("Not a valid atomic value")
\* derived Deserialize of Atomic: the lower-case name only
AtomicDeserialize(j) ==
    IF j.t = "string" /\ \E a \in Atomics : j.s = Lowercase[a]
      THEN AtomicFromStr(j.s)
      ELSE Err("unknown variant")
\* Deserialize for i64
I64Deserialize(j) ==
    IF j.t = "number" THEN Ok(j.n) ELSE Err("invalid type")

\* BaseKind::new; of the refinements the model keeps choices and max_length
NewBaseKind(kind) == [kind |-> kind, choices |-> None, max_length |-> None]
\* Kind { key, value, min, max }
NewKind(k, v, mn, mx) == [key |-> k, value |-> v, min |-> mn, max |-> mx]
\* the sentinel of max = "unlimited"
Unlimited == -1

\* the keys of the objects of a schema, in the order of serde_json::Map
SchemaKeys ==
    <<"enum", "ephemeral", "key", "max", "maxLength", "min", "mutable", "type",
      "value">>

RECURSIVE VisitMap(_, _, _, _)
RECURSIVE KindDeserialize(_)
\* Deserialize for BaseKind: an atomic name or an object of refinements
BaseKindDeserialize(j) ==
    IF j.t = "string"
      THEN IF AtomicFromStr(j.s).ok THEN Ok(NewBaseKind(AtomicFromStr(j.s).v))
                                    ELSE Err("invalid value")
    ELSE IF j.t = "object" THEN VisitMap("BaseKind", j.o, 1, NewBaseKind("String"))
    ELSE Err("invalid type")

\* BaseKindVisitor::visit_map, one entry
BaseKindEntry(acc, k, v) ==
    CASE k = "type" ->
           IF AtomicDeserialize(v).ok
             THEN Ok([acc EXCEPT !.kind = AtomicDeserialize(v).v])
             ELSE AtomicDeserialize(v)
      [] k = "enum" ->
           IF SetDeserialize(v).ok
             THEN Ok([acc EXCEPT !.choices = Some(SetDeserialize(v).v.strings)])
             ELSE SetDeserialize(v)
      [] k = "maxLength" ->
           IF I64Deserialize(v).ok
             THEN Ok([acc EXCEPT !.max_length = Some(I64Deserialize(v).v)])
             ELSE I64Deserialize(v)
      [] OTHER -> Err("unknown field")

\* KindVisitor::visit_map, one entry; acc.key is an Option until the end
KindEntry(acc, k, v) ==
    CASE k = "key" ->
           IF v = JNull THEN Ok([acc EXCEPT !.key = None])
           ELSE IF BaseKindDeserialize(v).ok
             THEN Ok([acc EXCEPT !.key = Some(BaseKindDeserialize(v).v)])
           ELSE BaseKindDeserialize(v)
      [] k = "value" ->
           IF BaseKindDeserialize(v).ok
             THEN Ok([acc EXCEPT !.value = Some(BaseKindDeserialize(v).v)])
             ELSE BaseKindDeserialize(v)
      [] k = "min" ->
           IF I64Deserialize(v).ok THEN Ok([acc EXCEPT !.min = I64Deserialize(v).v])
                                   ELSE I64Deserialize(v)
      [] k = "max" ->
           IF v.t = "string"
             THEN IF v.s = "unlimited" THEN Ok([acc EXCEPT !.max = Unlimited])
                                       ELSE Err("panic: todo")
           ELSE IF I64Deserialize(v).ok
             THEN Ok([acc EXCEPT !.max = I64Deserialize(v).v])
           ELSE I64Deserialize(v)
      [] OTHER -> Err("unknown field")

\* Deserialize for bool
BoolDeserialize(j) ==
    IF j.t = "bool" THEN Ok(j.b) ELSE Err("invalid type")

\* ColumnVisitor::visit_map, one entry
ColumnEntry(acc, k, v) ==
    CASE k = "type" ->
           IF KindDeserialize(v).ok THEN Ok([acc EXCEPT !.kind = KindDeserialize(v).v])
                                    ELSE KindDeserialize(v)
      [] k = "ephemeral" ->
           IF BoolDeserialize(v).ok
             THEN Ok([acc EXCEPT !.ephemeral = BoolDeserialize(v).v])
             ELSE BoolDeserialize(v)
      [] k = "mutable" ->
           IF BoolDeserialize(v).ok
             THEN Ok([acc EXCEPT !.mutable = BoolDeserialize(v).v])
             ELSE BoolDeserialize(v)
      [] OTHER -> Err("unknown field")

\* the loop `while let Some((k, v)) = next_entry()` of a visitor: the
\* first entry that fails ends it
VisitMap(visitor, o, i, acc) ==
    IF i > Len(SchemaKeys) THEN Ok(acc)
    ELSE LET k == SchemaKeys[i]
         IN IF k \notin DOMAIN o THEN VisitMap(visitor, o, i + 1, acc)
            ELSE LET r == CASE visitor = "BaseKind" -> BaseKindEntry(acc, k, o[k])
                            [] visitor = "Kind" -> KindEntry(acc, k, o[k])
                            [] OTHER -> ColumnEntry(acc, k, o[k])
                 IN IF r.ok THEN VisitMap(visitor, o, i + 1, r.v) ELSE r

\* Deserialize for Kind
KindDeserialize(j) ==
    IF j.t = "string"
      THEN IF AtomicFromStr(j.s).ok
             THEN Ok(NewKind(NewBaseKind(AtomicFromStr(j.s).v), None, 1, 1))
             ELSE Err("invalid value")
    ELSE IF j.t = "object"
      THEN LET r == VisitMap("Kind", j.o, 1, NewKind(None, None, 1, 1))
           IN IF ~r.ok THEN r
              ELSE IF r.v.key.some
                THEN Ok(NewKind(r.v.key.x, r.v.value, r.v.min, r.v.max))
              ELSE Err("missing field key")
    ELSE Err("invalid type")

\* Column::default()
DefaultColumn ==
    [name |-> "", kind |-> NewKind(NewBaseKind("String"), None, 1, 1),
     ephemeral |-> FALSE, mutable |-> FALSE]

\* Deserialize for Column
ColumnDeserialize(j) ==
    IF j.t = "object" THEN VisitMap("Column", j.o, 1, DefaultColumn)
                      ELSE Err("invalid type")

\* deserialize_columns and deserialize_tables: the value must be an object
\* (expect); its entries are deserialized in the order of their names, each
\* gets its name, and the first error ends the collection
CollectResults(r) ==
    LET names == SelectSeq(NameOrder, LAMBDA n : n \in DOMAIN r)
        bad == {i \in DOMAIN names : ~r[names[i]].ok}
    IN IF bad # {}
         THEN r[names[CHOOSE i \in bad : \A n \in bad : i <= n]]
         ELSE Ok([i \in DOMAIN names |->
                    [r[names[i]].v EXCEPT !.name = names[i]]])

deserialize_columns(j) ==
    IF j.t # "object" THEN Err("panic: convert to json object")
    ELSE CollectResults([n \in DOMAIN j.o |-> ColumnDeserialize(j.o[n])])

\* derived Deserialize of Table; the tables of the model carry columns only,
\* so name, isRoot and maxRows take their defaults
TableDeserialize(j) ==
    IF j.t # "object" THEN Err("invalid type")
    ELSE IF "columns" \notin DOMAIN j.o THEN Err("missing field columns")
    ELSE LET c == deserialize_columns(j.o["columns"])
         IN IF c.ok THEN Ok([name |-> "", is_root |-> FALSE, max_rows |-> None,
                             columns |-> c.v])
                    ELSE c

deserialize_tables(j) ==
    IF j.t # "object" THEN Err("panic: convert to json object")
    ELSE CollectResults([n \in DOMAIN j.o |-> TableDeserialize(j.o[n])])

\* derived Deserialize of Schema (Schema::from_str, Schema::from_file);
\* name, version and cksum come before tables in the documents of the model
SchemaDeserialize(j) ==
    IF j.t # "object" THEN Err("invalid type")
    ELSE IF \E k \in {"name", "version", "cksum"} :
              k \in DOMAIN j.o /\ j.o[k].t # "string"
      THEN Err("invalid type")
    ELSE IF "tables" \in DOMAIN j.o /\ ~deserialize_tables(j.o["tables"]).ok
      THEN deserialize_tables(j.o["tables"])
    ELSE IF {"name", "version", "cksum", "tables"} \ DOMAIN j.o # {}
      THEN Err("missing field")
    ELSE Ok([name |-> j.o["name"].s, version |-> j.o["version"].s,
             cksum |-> j.o["cksum"].s,
             tables |-> deserialize_tables(j.o["tables"]).v])

(***************************************************************************)
(* The generator's classification of a column (ovsdb-build/src/field.rs).  *)
(***************************************************************************)
\* Kind::is_scalar, is_optional, is_set, is_map, is_enum of the schema
IsScalar(k) == ~k.value.some /\ k.min = 1 /\ k.max = 1
IsOptionalKind(k) == k.min = 0 /\ k.max = 1
IsSet(k) == ~k.value.some /\ (k.min # 1 \/ k.max # 1)
IsMap(k) == k.value.some
IsEnum(k) == ~k.value.some /\ k.key.choices.some

\* the enum Kind of the generator
AtomicKind(a) == [kind |-> "Atomic", atomic |-> a]
EnumKind(n, a) == [kind |-> "Enum", name |-> n, atomic |-> a]
MapKind(k, v) == [kind |-> "Map", k |-> k, v |-> v]
OptionalKind(k) == [kind |-> "Optional", inner |-> k]
SetKind(k) == [kind |-> "Set", inner |-> k]

\* str_to_name: upper camel case
StrToName(n) == IF n = "a" THEN "A" ELSE "B"

\* Kind::from_column
FromColumn(column) ==
    LET k == column.kind
        field_kind == IF IsEnum(k) THEN EnumKind(StrToName(column.name), k.key.kind)
                                   ELSE AtomicKind(k.key.kind)
    IN IF IsScalar(k) THEN field_kind
       ELSE IF IsOptionalKind(k) THEN OptionalKind(field_kind)
       ELSE IF IsSet(k) THEN SetKind(field_kind)
       ELSE IF IsMap(k) THEN MapKind(k.key.kind, k.value.x.kind)
       ELSE field_kind

atomic_to_native_type(a) ==
    CASE a = "Boolean" -> "bool" [] a = "Integer" -> "i64" [] a = "Real" -> "f64"
      [] a = "String" -> "String" [] OTHER -> "ovsdb::protocol::Uuid"

\* Kind::to_native_type
RECURSIVE to_native_type(_)
to_native_type(k) ==
    CASE k.kind = "Atomic" -> atomic_to_native_type(k.atomic)
      [] k.kind = "Enum" -> k.name
      [] k.kind = "Map" ->
           "std::collections::BTreeMap<" \o atomic_to_native_type(k.k) \o ", "
             \o atomic_to_native_type(k.v) \o ">"
      [] k.kind = "Optional" -> "Option<" \o to_native_type(k.inner) \o ">"
      [] OTHER -> "Vec<" \o to_native_type(k.inner) \o ">"

\* Kind::to_ovsdb_type
RECURSIVE to_ovsdb_type(_)
to_ovsdb_type(k) ==
    CASE k.kind = "Atomic" -> atomic_to_native_type(k.atomic)
      [] k.kind = "Enum" -> k.name
      [] k.kind = "Map" ->
           "ovsdb::protocol::Map<" \o atomic_to_native_type(k.k) \o ", "
             \o atomic_to_native_type(k.v) \o ">"
      [] k.kind = "Optional" ->
           "ovsdb::protocol::Optional<" \o to_ovsdb_type(k.inner) \o ">"
      [] OTHER ->
           IF k.inner = AtomicKind("Uuid")
             THEN "ovsdb::protocol::UuidSet"
             ELSE "ovsdb::protocol::Set<" \o to_ovsdb_type(k.inner) \o ">"

\* Field::native and Field::ovsdb of a column
NewField(column) ==
    [name |-> column.name, kind |-> FromColumn(column),
     native |-> to_native_type(FromColumn(column)),
     ovsdb |-> to_ovsdb_type(FromColumn(column))]

(***************************************************************************)
(* The schema on its way: a schema document is read, parsed, and a field   *)
(* is generated for one of its columns.                                    *)
(***************************************************************************)
\* largest number given for min and max in the documents
MaxCount == 2

\* a JSON object of the members of f that are present
Present(f) == JObject([k \in {x \in DOMAIN f : f[x] # NoJson} |-> f[k]])

\* a base type with choices
EnumBase ==
    Present([type |-> JString("string"),
             enum |-> Tagged("set", StringsSerialize(<<"a", "b">>))])
\* "key" and "value" of a type
BaseKindJsons ==
    {JString("string"), JString("uuid"),
     Present([type |-> JString("integer")]), EnumBase}
\* "type" of a column: an atomic name, an object with key, value, min, max,
\* a base type, and malformed ones
KindJsons ==
    {JString(n) : n \in {"integer", "uuid", "String", "bogus"}}
    \cup {Present([key |-> k, value |-> v, min |-> mn, max |-> mx]) :
            k \in BaseKindJsons, v \in {NoJson, JString("integer")},
            mn \in {NoJson} \cup {JNumber(n) : n \in 0 .. MaxCount},
            mx \in {NoJson, JString("unlimited"), JString("many")}
                     \cup {JNumber(n) : n \in 0 .. MaxCount}}
    \cup {Present([type |-> JString("integer")]),
          Present([type |-> JString("string"), maxLength |-> JNumber(1)]),
          EnumBase, Present([key |-> JNull]), JNumber(1)}

ColumnJson(k, m) == Present([type |-> k, mutable |-> m])
\* a second column, if any
SecondColumns ==
    {NoJson, ColumnJson(JString("integer"), JBool(FALSE)),
     ColumnJson(Present([key |-> JString("string"), min |-> JNumber(2),
                         max |-> JNumber(1)]), NoJson)}

SchemaDocument(tables) ==
    Present([name |-> JString("db"), version |-> JString("1"),
             cksum |-> JString("0"), tables |-> tables])
TableJson(columns) == Present([columns |-> columns])
\* a schema of one table "a" with a column "a" and possibly a column "b"
Documents ==
    {SchemaDocument(Present([a |-> TableJson(
         Present([a |-> ColumnJson(k, NoJson), b |-> c]))])) :
       k \in KindJsons, c \in SecondColumns}
    \cup {SchemaDocument(JArray(<<>>)),
          SchemaDocument(Present([a |-> TableJson(JNull)])),
          SchemaDocument(Present([a |-> Present([isRoot |-> JBool(TRUE)])])),
          SchemaDocument(NoJson)}

\* fs::read of Schema::from_file, or the argument of Schema::from_str
ReadDocument(d) ==
    /\ document = NoJson
    /\ document' = d
    /\ UNCHANGED <<schema, field>>
    /\ UNCHANGED <<clientVars, codecVars, envelopeVars, valueVars>>

\* serde_json::from_slice::<Schema>
ParseSchema ==
    /\ document # NoJson
    /\ schema = NoSchema
    /\ schema' = SchemaDeserialize(document)
    /\ UNCHANGED <<document, field>>
    /\ UNCHANGED <<clientVars, codecVars, envelopeVars, valueVars>>

\* the generator makes the field of column c of table t
GenerateField(t, c) ==
    /\ schema # NoSchema
    /\ schema.ok
    /\ field = NoField
    /\ t \in DOMAIN schema.v.tables
    /\ c \in DOMAIN schema.v.tables[t].columns
    /\ field' = NewField(schema.v.tables[t].columns[c])
    /\ UNCHANGED <<document, schema>>
    /\ UNCHANGED <<clientVars, codecVars, envelopeVars, valueVars>>

SchemaNext ==
    \/ \E d \in Documents : ReadDocument(d)
    \/ ParseSchema
    \/ \E t \in 1 .. 1, c \in 1 .. 2 : GenerateField(t, c)

SchemaSpec == Init /\ [][SchemaNext]_vars

SchemaTypeOK ==
    /\ document \in Documents \cup {NoJson}
    /\ schema # NoSchema => (schema.ok => schema.v.name = "db")
    /\ field # NoField => field.name \in {"a", "b"}

(***************************************************************************)
(* Properties of the schema parser and of the generator.                   *)
(***************************************************************************)
\* the document has the one column "a"; its "type"
OneColumn ==
    /\ document # NoJson
    /\ "tables" \in DOMAIN document.o
    /\ document.o["tables"].t = "object"
    /\ "columns" \in DOMAIN document.o["tables"].o["a"].o
    /\ document.o["tables"].o["a"].o["columns"].t = "object"
    /\ DOMAIN document.o["tables"].o["a"].o["columns"].o = {"a"}
TypeJson == document.o["tables"].o["a"].o["columns"].o["a"].o["type"]
\* the parser produced a schema whose column "a" has the kind k
ParsedKindIs(k) == schema.ok /\ schema.v.tables[1].columns[1].kind = k
\* a member of an object, or a default
Member(o, k, de(_), default) == IF k \in DOMAIN o THEN de(o[k]).v ELSE default
\* "max": a number or "unlimited"
MaxDeserialize(j) ==
    IF j = JString("unlimited") THEN Ok(Unlimited) ELSE I64Deserialize(j)
SomeBaseKind(j) ==
    IF BaseKindDeserialize(j).ok THEN Ok(Some(BaseKindDeserialize(j).v))
                                 ELSE BaseKindDeserialize(j)

\* C24: Kind parsing accepts three forms: a bare atomic name gives the kind
\* of that atomic with no value and min = max = 1; an object with key (and
\* optional value, min, max) gives those fields, min and max defaulting to
\* 1; a base-type object (type and refinements, no key) gives the scalar kind
\* of that base type.
C24_KindForms ==
    (OneColumn /\ schema # NoSchema)
    => LET j == TypeJson
       IN /\ (j.t = "string" /\ AtomicFromStr(j.s).ok)
               => ParsedKindIs(NewKind(NewBaseKind(AtomicFromStr(j.s).v), None, 1, 1))
          /\ (/\ j.t = "object" /\ "key" \in DOMAIN j.o
              /\ DOMAIN j.o \subseteq {"key", "value", "min", "max"}
              /\ BaseKindDeserialize(j.o["key"]).ok
              /\ "value" \in DOMAIN j.o => BaseKindDeserialize(j.o["value"]).ok
              /\ "min" \in DOMAIN j.o => I64Deserialize(j.o["min"]).ok
              /\ "max" \in DOMAIN j.o => MaxDeserialize(j.o["max"]).ok)
               => ParsedKindIs(NewKind(BaseKindDeserialize(j.o["key"]).v,
                                       Member(j.o, "value", SomeBaseKind, None),
                                       Member(j.o, "min", I64Deserialize, 1),
                                       Member(j.o, "max", MaxDeserialize, 1)))
          /\ (/\ j.t = "object" /\ "key" \notin DOMAIN j.o
              /\ "type" \in DOMAIN j.o
              /\ BaseKindDeserialize(j).ok)
               => ParsedKindIs(NewKind(BaseKindDeserialize(j).v, None, 1, 1))

\* C25: every column of a parsed schema has a kind with min <= max or
\* max = -1 (unlimited); a document with min > max and a finite max does not
\* parse to a schema.
C25_MinAtMostMax ==
    (schema # NoSchema /\ schema.ok)
    => \A t \in DOMAIN schema.v.tables :
         \A c \in DOMAIN schema.v.tables[t].columns :
           LET k == schema.v.tables[t].columns[c].kind
           IN k.min <= k.max \/ k.max = Unlimited

\* the native and the wire type of the element of an optional or a set
ElementType(k, name) ==
    IF k.key.choices.some THEN StrToName(name)
                          ELSE atomic_to_native_type(k.key.kind)

\* C26: the field of a column follows the field-mapping table for every
\* combination of value, min and max: a kind with a value type is a map
\* (ordered map K->V, Map<K,V>) whatever its min and max; a kind with no
\* value and (min, max) = (0, 1) is Option / Optional; any other non-scalar
\* kind with no value is a sequence / Set (UuidSet for uuid elements); a
\* scalar is its atomic type or its named enum.
C26_FieldMapping ==
    field # NoField
    => \A c \in DOMAIN schema.v.tables[1].columns :
         LET column == schema.v.tables[1].columns[c]
             k == column.kind
             x == ElementType(k, column.name)
         IN column.name = field.name
            => /\ k.value.some
                    => /\ field.kind.kind = "Map"
                       /\ field.native =
                            "std::collections::BTreeMap<"
                              \o atomic_to_native_type(k.key.kind) \o ", "
                              \o atomic_to_native_type(k.value.x.kind) \o ">"
                       /\ field.ovsdb =
                            "ovsdb::protocol::Map<"
                              \o atomic_to_native_type(k.key.kind) \o ", "
                              \o atomic_to_native_type(k.value.x.kind) \o ">"
               /\ (~k.value.some /\ k.min = 0 /\ k.max = 1)
                    => /\ field.kind.kind = "Optional"
                       /\ field.native = "Option<" \o x \o ">"
                       /\ field.ovsdb = "ovsdb::protocol::Optional<" \o x \o ">"
               /\ (~k.value.some /\ <<k.min, k.max>> \notin {<<0, 1>>, <<1, 1>>})
                    => /\ field.kind.kind = "Set"
                       /\ field.native = "Vec<" \o x \o ">"
                       /\ field.ovsdb =
                            IF x = "ovsdb::protocol::Uuid"
                              THEN "ovsdb::protocol::UuidSet"
                              ELSE "ovsdb::protocol::Set<" \o x \o ">"
               /\ (~k.value.some /\ k.min = 1 /\ k.max = 1)
                    => /\ field.kind.kind \in {"Atomic", "Enum"}
                       /\ field.native = x
                       /\ field.ovsdb = x

(***************************************************************************)
(* The frame scanner on one message split into chunks, and on arbitrary    *)
(* bytes.                                                                  *)
(***************************************************************************)
\* a brace of either kind inside strings, around a nested object
BracesInStrings ==
    <<LBrace, Quote, LBrace, Quote, Colon,
      LBrace, Quote, RBrace, LBrace, Quote, Colon, Digit, RBrace, RBrace>>
\* whitespace and a string value
StringMember ==
    <<LBrace, Space, Quote, Digit, Quote, Colon, Quote, LBrace, Quote, RBrace>>

\* well-formed objects whose strings hold no backslash
ChunkObjects ==
    {m \in WellFormed \cup {BracesInStrings, StringMember} :
        FromSliceOk(m) /\ Backslash \notin Range(m)}

\* a new codec, and one message on the stream, delivered in any chunks
ChunkInit ==
    /\ stream \in {<<m>> : m \in ChunkObjects}
    /\ pending = Flatten(stream)
    /\ src = <<>>
    /\ data = <<>>
    /\ tags = <<>>
    /\ readable = FALSE
    /\ decoded = <<>>
    /\ ClientInit /\ EnvelopeIdle /\ ValueIdle /\ SchemaIdle

ChunkSpec == ChunkInit /\ [][CodecNext]_vars

\* C27: for a well-formed object without backslashes, split into chunks in
\* any way, decode returns None on every chunk before the one that holds
\* the final closing brace and the parsed message on that chunk, after
\* which the buffer and the tag stack of the codec are empty.
C27_ChunkingIndependence ==
    \A m \in ChunkObjects :
        stream = <<m>>
        => /\ (pending # <<>> \/ src # <<>>) => decoded = <<>>
           /\ (pending = <<>> /\ src = <<>>)
                => /\ decoded = <<DecodedMessage(m)>>
                   /\ data = <<>>
                   /\ tags = <<>>

\* a chunk has ended behind a closing brace inside a string: decode has
\* returned None and kept the bytes and the open string
C27_SplitInsideString ==
    /\ stream = <<BraceInString>>
    /\ decoded = <<>>
    /\ ~readable
    /\ data = <<LBrace, Quote, RBrace>>
    /\ tags = <<"Obj", "Str">>

\* the number of bytes of the stream the scanner has gone through
Scanned == Len(Flatten(stream)) - Len(pending) - Len(src)
\* the offsets between the items of the stream
Boundaries ==
    {Len(Flatten(SubSeq(stream, 1, k))) : k \in 0 .. Len(stream)}

\* C29: the tag stack is a run of Obj tags with at most one Str tag on top
\* (a Str tag is never the bottom tag and never beneath another tag), and,
\* while decode has returned no error, it is empty exactly when the scanner
\* stands between two messages.
C29_TagStackShape ==
    /\ \A i \in DOMAIN tags : tags[i] = "Str" => (i = Len(tags) /\ i > 1)
    /\ ~ReaderFailed => (tags = <<>> <=> Scanned \in Boundaries)

\* C30: whatever bytes arrive, decode returns a message, None or a
\* CodecError; it never panics.
C30_DecodeNeverPanics == Panic \notin Range(decoded)

(***************************************************************************)
(* client_main after the Shutdown command.                                 *)
(***************************************************************************)
\* C28: once client_main has handled Shutdown (writer.close() has
\* succeeded) it never takes a request from the request channel to write
\* it to the transport, whatever is still queued there.
C28_NoWriteAfterShutdown == [][writerClosed => ~RecvRequest]_vars

====
